---- MODULE Spec2Model ----
(***************************************************************************)
(* Signal confluence engine of src/backend/utils.py.                       *)
(*                                                                         *)
(* Number conventions (the code uses floats; the model uses integers):     *)
(*   score        in half points   (score 1.5  -> 3)                       *)
(*   bb_pos       in tenths        (1.5        -> 15)                      *)
(*   atrp         in 1/100 percent (0.02 %     -> 2, 2.5 % -> 250)         *)
(*   rsi, stoch, adx, macd_hist    as integers                             *)
(*   None of a numeric field       -> NoValue                              *)
(***************************************************************************)
EXTENDS Integers, Sequences, FiniteSets, TLC

VARIABLES
    env,      \* os.environ as read by os.getenv
    pair,     \* the asset argument of generate_ensemble_signal
    pc,       \* position inside generate_ensemble_signal
    now,      \* value of the latest datetime.now(timezone.utc) read
    cache,    \* _FAST_CACHE
    clock,    \* time.time(), whole seconds
    mtf,      \* local mtf of generate_ensemble_signal / _fetch_mtf (out)
    agg,      \* local agg of generate_ensemble_signal
    gli,      \* running get_live_indicators call: caller, timeframe, loop stage
    tried,    \* timeframes _force_signal_from_tf has gone through, with outcome
    calls,    \* provider adapters invoked by the running adapter entry point
    fetched,  \* whether the running call invoked any provider adapter
    result,   \* value returned (or exception raised) by generate_ensemble_signal
    live,     \* indicator snapshots handed to _score_from_live (aggregation check)
    logs,     \* table signal_logs: id -> row
    job,      \* running evaluate_pending_signals / generate_24h_served_report
    candles,  \* kl of the latest _eval_option_a_* call
    ev,       \* value the latest _eval_option_a_* call returned
    signal_logs,  \* table signal_logs in insertion order (delivery check)
    sent,         \* signal messages sent to users, by direction
    threads,      \* started _after_send threads and _post_update timers
    report,       \* "Trades:" total of the report just generated
    entry,        \* adapter entry point being called and its timeframe argument
    invoked,      \* provider adapter calls the entry point made, in order
    series,       \* the candle or close series the entry point worked from
    out,          \* what the entry point returned
    klines,       \* kl argument of _resample_klines
    grp,          \* group argument of _resample_klines
    resampled,    \* value _resample_klines returned
    thr,          \* threads inside _mtf_from_base_1m: position and locals
    writes,       \* every (expiry, value) _cache_set has stored, with its time
    closesIn,     \* closes argument of compute_indicators
    indOut,       \* what compute_indicators returned (or that it raised)
    quser,        \* the users row consume_signal_by_telegram_id works on
    qthr,         \* threads inside consume_signal_by_telegram_id: position, locals, result
    qcfg,         \* database backend, whether calls overlap, units at the start
    rowlock,      \* thread holding the row lock of SELECT ... FOR UPDATE (0: none)
    ruser,        \* the users row of the user sending signal requests
    rthr,         \* worker threads inside on_text / on_signal_timeframe
    rglob,        \* FREE_SAMPLES[uid], market state, time, free signals served
    puser,        \* premium columns of one users row
    pglob,        \* database implementation, time in half days, the latest operation
    reminders,    \* expiry reminders run_cron has sent: <<days, expiry date>>
    runners,      \* run_cron's evaluation and the report, each with the rows it read
    feed          \* candles the providers serve: oldest slot still served, price path

signalVars == <<env, pair, pc, now, cache, clock, mtf, agg, gli, tried, calls, fetched, result, live>>
evalVars == <<logs, job, candles, ev>>
serveVars == <<signal_logs, sent, threads, report>>
adapterVars == <<entry, invoked, series, out>>
resampleVars == <<klines, grp, resampled>>
threadVars == <<thr, writes>>
indVars == <<closesIn, indOut>>
quotaVars == <<quser, qthr, qcfg, rowlock>>
requestVars == <<ruser, rthr, rglob>>
premiumVars == <<puser, pglob, reminders>>
runVars == <<runners, feed>>
restVars == <<serveVars, adapterVars, resampleVars, threadVars, indVars, quotaVars,
              requestVars, premiumVars, runVars>>
vars == <<signalVars, evalVars, restVars>>

\* Python None in a numeric field (adx, atrp).
NoValue == -1

TFs == {"1m", "3m", "5m"}
TFOrder == <<"1m", "3m", "5m">>
Modes == {"pro", "balanced", "aggressive"}

-----------------------------------------------------------------------------
(* Sequence helpers *)

RECURSIVE SeqSum(_)
SeqSum(s) == IF s = <<>> THEN 0 ELSE Head(s) + SeqSum(Tail(s))

\* s[:k]
Take(s, k) == SubSeq(s, 1, IF Len(s) < k THEN Len(s) ELSE k)

\* list(dict.fromkeys(s)): duplicates dropped, first occurrence kept
RECURSIVE DedupFrom(_, _)
DedupFrom(s, seen) ==
    IF s = <<>> THEN <<>>
    ELSE IF Head(s) \in seen THEN DedupFrom(Tail(s), seen)
         ELSE <<Head(s)>> \o DedupFrom(Tail(s), seen \cup {Head(s)})
Dedup(s) == DedupFrom(s, {})

\* sorted(xs)[1] for a list of at least two numbers
SortedSecond(xs) ==
    CHOOSE v \in {xs[i] : i \in 1..Len(xs)} :
        /\ Cardinality({i \in 1..Len(xs) : xs[i] < v}) <= 1
        /\ Cardinality({i \in 1..Len(xs) : xs[i] <= v}) >= 2

\* sum(1 for x in xs if cond(x)), given the sequence of cond(x)
CountTrue(bs) == Cardinality({i \in 1..Len(bs) : bs[i]})

Min2(a, b) == IF a < b THEN a ELSE b
Max2(a, b) == IF a > b THEN a ELSE b

-----------------------------------------------------------------------------
(* Environment *)

MinAdx == 18        \* ENSEMBLE_MIN_ADX default
MinAtrPct == 2      \* ENSEMBLE_MIN_ATR_PCT default 0.02
MaxAtrPct == 250    \* ENSEMBLE_MAX_ATR_PCT default 2.5

\* os.getenv(name, "1").strip() in ("1", "true", "True")
FlagOn(v) == v \in {"1", "true", "True"}

-----------------------------------------------------------------------------
(* _score_from_live *)

ScoreValue(l) ==
      (IF l.rsi >= 55 THEN 2 ELSE 0)
    - (IF l.rsi <= 45 THEN 2 ELSE 0)
    + (IF l.macd_hist > 0 THEN 2 ELSE 0)
    - (IF l.macd_hist < 0 THEN 2 ELSE 0)
    + (IF l.ema_fast_over_slow THEN 2 ELSE -2)
    - (IF l.bb_pos > 10 THEN 1 ELSE 0)
    + (IF l.bb_pos < -10 THEN 1 ELSE 0)
    - (IF l.stoch >= 60 THEN 1 ELSE 0)
    + (IF l.stoch <= 40 THEN 1 ELSE 0)

ReasonsUp(l) ==
       (IF l.rsi >= 55 THEN <<"RSI>55">> ELSE <<>>)
    \o (IF l.macd_hist > 0 THEN <<"MACD>0">> ELSE <<>>)
    \o (IF l.ema_fast_over_slow THEN <<"EMA20>EMA50">> ELSE <<>>)
    \o (IF l.bb_pos < -10 THEN <<"Near lower BB">> ELSE <<>>)
    \o (IF l.stoch <= 40 THEN <<"Stoch<40">> ELSE <<>>)

ReasonsDown(l) ==
       (IF l.rsi <= 45 THEN <<"RSI<45">> ELSE <<>>)
    \o (IF l.macd_hist < 0 THEN <<"MACD<0">> ELSE <<>>)
    \o (IF ~l.ema_fast_over_slow THEN <<"EMA20<EMA50">> ELSE <<>>)
    \o (IF l.bb_pos > 10 THEN <<"Near upper BB">> ELSE <<>>)
    \o (IF l.stoch >= 60 THEN <<"Stoch>60">> ELSE <<>>)

DirOf(score) == IF score > 0 THEN "UP" ELSE IF score < 0 THEN "DOWN" ELSE "FLAT"

ScoreFromLive(l) ==
    [ score        |-> ScoreValue(l),
      dir          |-> DirOf(ScoreValue(l)),
      reasons_up   |-> ReasonsUp(l),
      reasons_down |-> ReasonsDown(l),
      m            |-> l ]

-----------------------------------------------------------------------------
(* _aggregate_scores *)

\* mtf.values() in insertion order (1m, 3m, 5m on both fetch paths)
MtfValues(m) ==
    LET keys == SelectSeq(TFOrder, LAMBDA t : t \in DOMAIN m)
    IN  [i \in 1..Len(keys) |-> m[keys[i]]]

NotOk == [ok |-> FALSE, dir |-> "NONE", confidence |-> 0, reasons |-> <<>>]

NeedVotes(mode) == IF mode = "pro" THEN 3 ELSE 2

\* avg >= avg_need_up, avg = total / max(n, 1), in half points
AvgUpOk(total, n, mode) ==
    IF mode = "pro" THEN total >= 4 * Max2(n, 1) ELSE total >= 3 * Max2(n, 1)

\* avg <= avg_need_dn
AvgDownOk(total, n, mode) ==
    IF mode = "pro" THEN total <= -4 * Max2(n, 1) ELSE total <= -3 * Max2(n, 1)

\* the tail of gates(): ADX / ATR% counts
AdxAtrGateNoAdx(vals, mode) ==
    LET need == IF mode # "aggressive" THEN 2 ELSE 1
        atrps == [i \in 1..Len(vals) |-> vals[i].m.atrp]
    IN  CountTrue([i \in 1..Len(atrps) |->
            atrps[i] # NoValue /\ MinAtrPct <= atrps[i] /\ atrps[i] <= MaxAtrPct]) >= need

AdxAtrGate(vals, mode) ==
    LET need == IF mode # "aggressive" THEN 2 ELSE 1
        adxs == [i \in 1..Len(vals) |-> vals[i].m.adx]
        atrps == [i \in 1..Len(vals) |-> vals[i].m.atrp]
        adx_ok == CountTrue([i \in 1..Len(adxs) |->
                      adxs[i] # NoValue /\ adxs[i] >= MinAdx]) >= need
        atr_ok == CountTrue([i \in 1..Len(atrps) |->
                      atrps[i] # NoValue /\ MinAtrPct <= atrps[i] /\ atrps[i] <= MaxAtrPct]) >= need
    IN  adx_ok /\ atr_ok

\* gates(): RSI strength, EMA alignment, Bollinger extremes
StrengthGates(vals, mode, direction) ==
    LET rsis == [i \in 1..Len(vals) |-> vals[i].m.rsi]
        emas == [i \in 1..Len(vals) |-> vals[i].m.ema_fast_over_slow]
        bbs  == [i \in 1..Len(vals) |-> vals[i].m.bb_pos]
        need_rsi == IF mode # "aggressive" THEN 2 ELSE 1
        need_ema == IF mode # "aggressive" THEN 2 ELSE 1
        med  == SortedSecond(rsis)
        lim  == IF mode = "pro" THEN 15 ELSE IF mode = "balanced" THEN 18 ELSE 20
    IN  IF direction = "UP"
        THEN /\ ~(CountTrue([i \in 1..Len(rsis) |-> rsis[i] >= (IF mode = "pro" THEN 55 ELSE 53)]) < need_rsi)
             /\ ~(med < (IF mode = "pro" THEN 52 ELSE 50))
             /\ ~(CountTrue([i \in 1..Len(emas) |-> emas[i]]) < need_ema)
             /\ ~(CountTrue([i \in 1..Len(bbs) |-> bbs[i] > lim]) >= 2)
        ELSE /\ ~(CountTrue([i \in 1..Len(rsis) |-> rsis[i] <= (IF mode = "pro" THEN 45 ELSE 47)]) < need_rsi)
             /\ ~(med > (IF mode = "pro" THEN 48 ELSE 50))
             /\ ~(CountTrue([i \in 1..Len(emas) |-> ~emas[i]]) < need_ema)
             /\ ~(CountTrue([i \in 1..Len(bbs) |-> bbs[i] < -lim]) >= 2)

Gates(vals, mode, direction) ==
    StrengthGates(vals, mode, direction) /\ AdxAtrGate(vals, mode)

UpVotes(vals) == CountTrue([i \in 1..Len(vals) |-> vals[i].dir = "UP"])
DownVotes(vals) == CountTrue([i \in 1..Len(vals) |-> vals[i].dir = "DOWN"])
TotalScore(vals) == SeqSum([i \in 1..Len(vals) |-> vals[i].score])

RECURSIVE CollectReasons(_, _)
CollectReasons(vals, d) ==
    IF vals = <<>> THEN <<>>
    ELSE (IF Head(vals).dir = d
          THEN Take(IF d = "UP" THEN Head(vals).reasons_up ELSE Head(vals).reasons_down, 2)
          ELSE <<>>) \o CollectReasons(Tail(vals), d)

AggregateScoresNoVotes(m, mode) ==
    LET vals  == MtfValues(m)
        n     == Len(vals)
        total == TotalScore(vals)
    IN  IF n < 2 THEN NotOk
        ELSE IF AvgUpOk(total, n, mode) /\ Gates(vals, mode, "UP")
        THEN [ok |-> TRUE, dir |-> "UP",
              confidence |-> Min2(5, 2 + (total \div (2 * n))),
              reasons |-> Take(Dedup(CollectReasons(vals, "UP")), 3)]
        ELSE NotOk

AggregateScores(m, mode) ==
    LET vals  == MtfValues(m)
        n     == Len(vals)
        total == TotalScore(vals)
    IN  IF DOMAIN m = {} THEN NotOk
        ELSE IF UpVotes(vals) >= NeedVotes(mode) /\ AvgUpOk(total, n, mode)
                /\ Gates(vals, mode, "UP")
        THEN [ok |-> TRUE, dir |-> "UP",
              confidence |-> Min2(5, 2 + (total \div (2 * n))),
              reasons |-> Take(Dedup(CollectReasons(vals, "UP")), 3)]
        ELSE IF DownVotes(vals) >= NeedVotes(mode) /\ AvgDownOk(total, n, mode)
                /\ Gates(vals, mode, "DOWN")
        THEN [ok |-> TRUE, dir |-> "DOWN",
              confidence |-> Min2(5, 2 + ((-total) \div (2 * n))),
              reasons |-> Take(Dedup(CollectReasons(vals, "DOWN")), 3)]
        ELSE NotOk

-----------------------------------------------------------------------------
(* Indicator snapshots (the dict compute_indicators / compute_indicators_ohlc return) *)

Live(rsi, macd, ema, bb, st, adx, atrp) ==
    [ rsi |-> rsi, macd_hist |-> macd, ema_fast_over_slow |-> ema,
      bb_pos |-> bb, stoch |-> st, adx |-> adx, atrp |-> atrp ]

\* ema_fast_over_slow = e20 > e50
EmaFastOverSlow(e20, e50) == e20 > e50

\* compute_indicators on fewer than 60 closes
NeutralDefaults == [rsi |-> 50, macd_hist |-> 0, ema_fast_over_slow |-> FALSE,
                    bb_pos |-> 0, stoch |-> 50]

\* Snapshots the aggregation check draws from: momentum (rsi, macd) down /
\* neutral / up, either EMA order, neutral or stretched Bollinger+Stochastic,
\* closes-only (no adx, atrp) or trending OHLC, plus a weak-trend (adx 10) and
\* an out-of-band volatility snapshot.
AggSnaps ==
    { Live(mo[1], mo[2], e, bs[1], bs[2], aa[1], aa[2]) :
        mo \in {<<40, -1>>, <<50, 0>>, <<60, 1>>},
        e  \in BOOLEAN,
        bs \in {<<0, 50>>, <<16, 60>>},
        aa \in {<<NoValue, NoValue>>, <<25, 50>>} }
    \cup { Live(60, 1, TRUE, 0, 50, 10, 50), Live(60, 1, TRUE, 0, 50, 25, 300),
           Live(40, -1, FALSE, 0, 50, 10, 50) }

EmptyMtf == [t \in {} |-> NotOk]

\* the settings read with os.getenv: ENSEMBLE_MODE, whether each provider key
\* is set, the two filter flags and FAST_CACHE_TTL (seconds)
DefaultEnv ==
    [ mode |-> "pro", finnhub |-> FALSE, twelvedata |-> FALSE, alphavantage |-> FALSE,
      strict_session |-> "1", strict_news |-> "1", fast_cache_ttl |-> 4 ]

\* no clock reading in scope; src names the filter that read the clock
NoTime == [wd |-> 0, hr |-> 0, mi |-> 0, ny |-> 0, src |-> "none"]
NoGli == [caller |-> "none", tf |-> "none", stage |-> "none"]
NoResult == [kind |-> "none", dir |-> "NONE", confidence |-> 0, reasons |-> <<>>]

\* nothing served, no evaluation running
NoJob == [kind |-> "none", rows |-> <<>>, cur |-> 0]
NoEv == [some |-> FALSE, entry_price |-> NoValue, exit_price |-> NoValue,
         pnl_pct |-> 0, exit_time |-> NoValue, outcome |-> ""]
EvalIdle == logs = <<>> /\ job = NoJob /\ candles = <<>> /\ ev = NoEv
ServeIdle == signal_logs = <<>> /\ sent = <<>> /\ threads = {} /\ report = NoValue
NoEntry == [fn |-> "none", tf |-> "none"]
NoSeries == [provider |-> "none", res |-> 0, n |-> 0, resampled |-> FALSE]
NoOut == [kind |-> "idle", m |-> Live(50, 0, FALSE, 0, 50, NoValue, NoValue)]
AdapterIdle == entry = NoEntry /\ invoked = <<>> /\ series = NoSeries /\ out = NoOut
ResampleIdle == klines = <<>> /\ grp = 0 /\ resampled = [done |-> FALSE, out |-> <<>>]
ThreadIdle == thr = <<>> /\ writes = {}
NoInd == [done |-> FALSE, raised |-> FALSE, live |-> NeutralDefaults, rsi |-> NoValue,
          i |-> 0, avg_gain |-> 0, avg_loss |-> 0]
IndIdle == closesIn = [vals |-> <<>>, numeric |-> TRUE] /\ indOut = NoInd
QuotaIdle == quser = <<>> /\ qthr = <<>> /\ qcfg = <<>> /\ rowlock = 0
RequestIdle == ruser = <<>> /\ rthr = <<>> /\ rglob = <<>>
PremiumIdle == puser = <<>> /\ pglob = <<>> /\ reminders = {}
RunsIdle == runners = <<>> /\ feed = <<>>

\* the variables of every other part of the program are idle / stay as they
\* are; g names the part that is at work
OtherIdle(g) ==
    /\ IF g = "serve" THEN TRUE ELSE ServeIdle
    /\ IF g = "adapter" THEN TRUE ELSE AdapterIdle
    /\ IF g = "resample" THEN TRUE ELSE ResampleIdle
    /\ IF g = "thread" THEN TRUE ELSE ThreadIdle
    /\ IF g = "ind" THEN TRUE ELSE IndIdle
    /\ IF g = "quota" THEN TRUE ELSE QuotaIdle
    /\ IF g = "request" THEN TRUE ELSE RequestIdle
    /\ IF g = "premium" THEN TRUE ELSE PremiumIdle
    /\ IF g = "runs" THEN TRUE ELSE RunsIdle
OtherUnchanged(g) ==
    /\ IF g = "serve" THEN TRUE ELSE UNCHANGED serveVars
    /\ IF g = "adapter" THEN TRUE ELSE UNCHANGED adapterVars
    /\ IF g = "resample" THEN TRUE ELSE UNCHANGED resampleVars
    /\ IF g = "thread" THEN TRUE ELSE UNCHANGED threadVars
    /\ IF g = "ind" THEN TRUE ELSE UNCHANGED indVars
    /\ IF g = "quota" THEN TRUE ELSE UNCHANGED quotaVars
    /\ IF g = "request" THEN TRUE ELSE UNCHANGED requestVars
    /\ IF g = "premium" THEN TRUE ELSE UNCHANGED premiumVars
    /\ IF g = "runs" THEN TRUE ELSE UNCHANGED runVars
RestIdle == OtherIdle("none")

-----------------------------------------------------------------------------
(* Aggregation as a pure function: _fetch_mtf scores each available           *)
(* timeframe, _aggregate_scores combines them.                                *)

InitAgg ==
    /\ env \in {[DefaultEnv EXCEPT !.mode = m] : m \in Modes}
    /\ live \in UNION {[D -> AggSnaps] : D \in SUBSET TFs}
    /\ pc = "score"
    /\ pair = "EUR/USD"
    /\ now = NoTime
    /\ cache = EmptyMtf
    /\ clock = 0
    /\ mtf = EmptyMtf
    /\ agg = NotOk
    /\ gli = NoGli
    /\ tried = <<>>
    /\ calls = <<>>
    /\ fetched = FALSE
    /\ result = NoResult
    /\ EvalIdle /\ RestIdle

\* out[tf] = _score_from_live(live) for every timeframe with data
ScoreLive ==
    /\ pc = "score"
    /\ mtf' = [t \in DOMAIN live |-> ScoreFromLive(live[t])]
    /\ pc' = "aggregate"
    /\ UNCHANGED <<env, pair, now, cache, clock, agg, gli, tried, calls, fetched, result, live>>
    /\ UNCHANGED <<evalVars, restVars>>

\* agg = _aggregate_scores(mtf)
ApplyAggregate ==
    /\ pc = "aggregate"
    /\ agg' = AggregateScores(mtf, env.mode)
    /\ pc' = "aggregated"
    /\ UNCHANGED <<env, pair, now, cache, clock, mtf, gli, tried, calls, fetched, result, live>>
    /\ UNCHANGED <<evalVars, restVars>>

NextAgg == ScoreLive \/ ApplyAggregate

SpecAgg == InitAgg /\ [][NextAgg]_vars

-----------------------------------------------------------------------------
(* Claims about _score_from_live and _aggregate_scores, under SpecAgg *)

VotesFor(d) == Cardinality({t \in DOMAIN mtf : mtf[t].dir = d})
ScoreAt(t) == IF t \in DOMAIN mtf THEN mtf[t].score ELSE 0
ScoreTotal == ScoreAt("1m") + ScoreAt("3m") + ScoreAt("5m")
NumTf == Cardinality(DOMAIN mtf)

\* C3: an accepted direction D has at least the mode's vote count (pro 3, else
\* 2) of timeframes pointing to D and an average score of at least the mode's
\* threshold (pro 2.0, else 1.5) with D's sign; pro accepts nothing with fewer
\* than three timeframes.
C3_VotesAndAverage ==
    (pc = "aggregated" /\ agg.ok) =>
        /\ agg.dir \in {"UP", "DOWN"}
        /\ VotesFor(agg.dir) >= (IF env.mode = "pro" THEN 3 ELSE 2)
        /\ agg.dir = "UP" =>
              2 * ScoreTotal >= (IF env.mode = "pro" THEN 8 ELSE 6) * NumTf
        /\ agg.dir = "DOWN" =>
              2 * ScoreTotal <= (IF env.mode = "pro" THEN -8 ELSE -6) * NumTf
        /\ env.mode = "pro" => NumTf = 3

C3_Witness ==
    /\ pc = "aggregated" /\ agg.ok /\ agg.dir = "DOWN"
    /\ env.mode = "balanced" /\ VotesFor("DOWN") = 2 /\ NumTf = 3

\* the C4 snapshot: RSI 60, EMA fast over slow, MACD histogram +1, ADX 10
IsWeakTrendUp(l) ==
    l.rsi = 60 /\ l.ema_fast_over_slow /\ l.macd_hist = 1 /\ l.adx = 10

\* C4: in pro mode three such timeframes are rejected (ok = false) although
\* votes and average pass.
C4_AdxGateRejects ==
    (pc = "aggregated" /\ env.mode = "pro" /\ DOMAIN live = TFs
        /\ \A t \in TFs : IsWeakTrendUp(live[t])) => ~agg.ok

C4_Witness ==
    /\ pc = "aggregated" /\ env.mode = "pro" /\ DOMAIN live = TFs
    /\ \A t \in TFs : IsWeakTrendUp(live[t])
    /\ VotesFor("UP") = 3
    /\ ScoreTotal >= 4 * 3
    /\ ~agg.ok

\* C5 (as claimed): three timeframes that meet the vote, average, RSI, EMA and
\* Bollinger requirements for UP and have adx = atrp = None are accepted.
C5_NullAdxAccepted ==
    (pc = "aggregated" /\ DOMAIN mtf = TFs
        /\ \A t \in TFs : mtf[t].m.adx = NoValue /\ mtf[t].m.atrp = NoValue
        /\ UpVotes(MtfValues(mtf)) >= NeedVotes(env.mode)
        /\ AvgUpOk(TotalScore(MtfValues(mtf)), 3, env.mode)
        /\ StrengthGates(MtfValues(mtf), env.mode, "UP"))
    => agg.ok

\* C6 (as claimed): RSI 50, MACD histogram 0, EMA20 = EMA50, neutral Bollinger
\* position and Stochastic score 0 and FLAT.
IsDeadNeutral(l) ==
    /\ l.rsi = 50 /\ l.macd_hist = 0 /\ l.bb_pos = 0 /\ l.stoch = 50
    /\ l.ema_fast_over_slow = EmaFastOverSlow(100, 100)

C6_NeutralIsFlat ==
    \A t \in DOMAIN mtf :
        IsDeadNeutral(mtf[t].m) => (mtf[t].score = 0 /\ mtf[t].dir = "FLAT")

-----------------------------------------------------------------------------
(* Assets, trading sessions and the news window *)

Pairs == {"BTC/USDT", "EUR/USD", "GOLD", "NASDAQ", "XYZ"}

\* the substrings _classify_asset tests for that occur in asset.upper()
Substrings(p) ==
    CASE p = "BTC/USDT" -> {"BTC", "/", "USD"}
      [] p = "EUR/USD"  -> {"/", "USD", "EUR"}
      [] p = "GOLD"     -> {"GOLD"}
      [] p = "NASDAQ"   -> {"NASDAQ"}
      [] OTHER          -> {}

ClassifyAsset(p) ==
    IF Substrings(p) \cap {"BTC", "ETH"} # {} THEN "crypto"
    ELSE IF "/" \in Substrings(p)
            /\ Substrings(p) \cap {"USD", "EUR", "GBP", "JPY", "INR"} # {} THEN "forex"
    ELSE IF Substrings(p) \cap {"GOLD", "XAU"} # {} THEN "gold"
    ELSE IF Substrings(p) \cap {"NASDAQ", "NDQ"} # {} THEN "index"
    ELSE "other"

\* now_utc.astimezone(America/New_York): t.ny is the offset in hours (4 or 5)
NyWeekday(t) == IF t.hr < t.ny THEN (t.wd + 6) % 7 ELSE t.wd
NyMinuteOfDay(t) == ((t.hr + 24 - t.ny) % 24) * 60 + t.mi

MarketAlwaysOpen(p, t) == TRUE

\* weekday 0 = Monday ... 6 = Sunday
MarketOpenForAsset(p, t) ==
    LET cls == ClassifyAsset(p)
    IN  CASE cls = "crypto" -> TRUE
          [] cls = "forex"  ->
                IF t.wd \in {0, 1, 2, 3} THEN TRUE
                ELSE IF t.wd = 4 THEN t.hr < 21
                ELSE IF t.wd = 6 THEN t.hr >= 21
                ELSE FALSE
          [] cls = "gold"   ->
                IF t.hr = 22 THEN FALSE
                ELSE IF t.wd = 6 THEN t.hr >= 23
                ELSE IF t.wd \in {0, 1, 2, 3} THEN TRUE
                ELSE IF t.wd = 4 THEN t.hr < 22
                ELSE FALSE
          [] cls = "index"  ->
                /\ NyWeekday(t) < 5
                /\ 9 * 60 + 30 <= NyMinuteOfDay(t)
                /\ NyMinuteOfDay(t) < 16 * 60
          [] OTHER -> TRUE

NewsMinutes == {0, 1, 2, 30, 31, 32}

NewsRiskWindowTopOnly(p, flag, t) ==
    IF ~FlagOn(flag) THEN FALSE
    ELSE IF ClassifyAsset(p) \notin {"forex", "gold", "index"} THEN FALSE
    ELSE t.mi \in {0, 1, 2}

NewsRiskWindow(p, flag, t) ==
    IF ~FlagOn(flag) THEN FALSE
    ELSE IF ClassifyAsset(p) \notin {"forex", "gold", "index"} THEN FALSE
    ELSE t.mi \in NewsMinutes

\* hours around every boundary of the session windows (UTC)
SessionHours == {0, 13, 14, 19, 20, 21, 22, 23}

\* values datetime.now(timezone.utc) can show to _market_open_for_asset: the
\* fields the pair's class looks at vary, the others stay 0
SessionReads(p) ==
    LET cls == ClassifyAsset(p)
    IN  IF cls \in {"forex", "gold"}
        THEN [wd : 0..6, hr : SessionHours, mi : {0}, ny : {0}, src : {"session"}]
        ELSE IF cls = "index"
        THEN [wd : 0..6, hr : SessionHours, mi : {0, 30}, ny : {4, 5}, src : {"session"}]
        ELSE {[NoTime EXCEPT !.src = "session"]}

\* values datetime.now(timezone.utc) can show to _news_risk_window
NewsReads == [wd : {0}, hr : {0}, mi : 0..59, ny : {0}, src : {"news"}]

-----------------------------------------------------------------------------
(* Results of generate_ensemble_signal (the fields of the text block) *)

NoTrade(reason) ==
    [kind |-> "NO-TRADE", dir |-> "NO-TRADE", confidence |-> 0, reasons |-> <<reason>>]
SessionClosed == NoTrade("Session closed/illiquid")
NewsWindow == NoTrade("High-impact news window")
DefaultResult ==
    [kind |-> "DEFAULT", dir |-> "UP", confidence |-> 2, reasons |-> <<"Fallback bias">>]
Raised == [kind |-> "RAISE", dir |-> "NONE", confidence |-> 0, reasons |-> <<>>]
AggResult(a) ==
    [kind |-> "AGG", dir |-> a.dir, confidence |-> a.confidence,
     reasons |-> IF a.reasons # <<>> THEN a.reasons
                 ELSE IF a.dir = "UP" THEN <<"MTF EMA+MACD+RSI confluence">>
                 ELSE <<"MTF EMA+MACD+RSI pressure">>]
ForcedResult(f) ==
    [kind |-> "FORCED", dir |-> f.dir, confidence |-> f.confidence,
     reasons |-> IF f.reasons # <<>> THEN f.reasons
                 ELSE <<"Single-TF bias (EMA+MACD+RSI)">>]

-----------------------------------------------------------------------------
(* Provider payloads.  A series is described by what the code looks at: its   *)
(* length n, whether every value converts with float(), whether its bars are  *)
(* one minute apart (iv1m), and the market regime that decides the outcome of *)
(* the indicator arithmetic.  None and [] are both n = 0: every caller tests  *)
(* them with "not x" / "if x".                                                *)

MinBars == 60          \* len(kl) >= 60, len(closes) < 60
FastMinBars == 120     \* _mtf_from_base_1m: len(kl) < 120
ResampleBars == 3 * MinBars  \* shortest 1m series whose 3m resampling has MinBars bars
KlineLimit == 240      \* limit=240
ClosesLimit == 200     \* limit=200
AdxPeriod == 14        \* period = 14
AdxMinBars == AdxPeriod + 2   \* len(kl) < period + 2

Trends == {"up", "weak"}

EmptySeries == [n |-> 0, numeric |-> TRUE, iv1m |-> FALSE, trend |-> "up"]

\* closes-based indicators of a long-enough numeric series, by regime
CloseInd(trend) ==
    IF trend = "down"
    THEN [rsi |-> 40, macd_hist |-> -1, ema_fast_over_slow |-> EmaFastOverSlow(99, 100),
          bb_pos |-> 0, stoch |-> 50]
    ELSE [rsi |-> 60, macd_hist |-> 1, ema_fast_over_slow |-> EmaFastOverSlow(101, 100),
          bb_pos |-> 0, stoch |-> 50]

\* <<adx, atrp>> of a long-enough numeric OHLC series, by regime
AdxAtrOf(trend) == IF trend = "weak" THEN <<10, 50>> ELSE <<25, 50>>

WithAdx(base, a) ==
    Live(base.rsi, base.macd_hist, base.ema_fast_over_slow, base.bb_pos, base.stoch,
         a[1], a[2])

ComputeIndicatorsUnguarded(s) == CloseInd(s.trend)
\* compute_indicators(closes); raises on a value that is not a number unless
\* the series is shorter than MinBars
ComputeIndicators(s) == IF s.n < MinBars THEN NeutralDefaults ELSE CloseInd(s.trend)
ComputeIndicatorsRaises(s) == s.n >= MinBars /\ ~s.numeric

\* compute_indicators_ohlc(kl); float() of every high, low and close comes first
ComputeIndicatorsOhlc(s) ==
    WithAdx(ComputeIndicators(s),
            IF s.n < AdxMinBars THEN <<NoValue, NoValue>> ELSE AdxAtrOf(s.trend))
ComputeIndicatorsOhlcRaises(s) == s.n > 0 /\ ~s.numeric

\* _resample_klines(kl, group)
ResampleKlines(s, group) ==
    IF group <= 1 THEN s ELSE [s EXCEPT !.n = s.n \div group, !.iv1m = FALSE]

KlineLens == {0, MinBars - 1, MinBars, FastMinBars - 1, FastMinBars, ResampleBars, KlineLimit}
ClosesLens == {0, MinBars - 1, MinBars, ClosesLimit}

\* fetch_klines_binance: the JSON list as received (None on any failure)
FetchKlinesBinance(tf) ==
    {EmptySeries} \cup
    [n : KlineLens \ {0}, numeric : BOOLEAN, iv1m : {tf = "1m"}, trend : Trends]

\* fetch_klines_finnhub: None without key, symbol, 200/"ok" answer or when a
\* value does not convert; 3m is asked as 1-minute candles
FetchKlinesFinnhub(e, p, tf) ==
    IF ~e.finnhub \/ ClassifyAsset(p) \in {"other"} THEN {EmptySeries}
    ELSE {EmptySeries} \cup
         [n : KlineLens \ {0}, numeric : {TRUE},
          iv1m : IF tf = "5m" THEN {FALSE} ELSE BOOLEAN, trend : Trends]

\* fetch_ohlc_finnhub: j["c"] as received
FetchOhlcFinnhub(e, p) ==
    IF ~e.finnhub \/ ClassifyAsset(p) \in {"other"} THEN {EmptySeries}
    ELSE {EmptySeries} \cup
         [n : ClosesLens \ {0}, numeric : BOOLEAN, iv1m : {FALSE}, trend : {"up"}]

\* fetch_ohlc_twelvedata: floats, or None / an exception
FetchOhlcTwelvedata(e, p) ==
    IF ~e.twelvedata THEN {EmptySeries}
    ELSE {EmptySeries} \cup
         [n : {MinBars - 1, ClosesLimit}, numeric : {TRUE}, iv1m : {FALSE},
          trend : {"up"}]

\* fetch_ohlc_alphavantage: floats, or None / an exception
FetchOhlcAlphavantage(e, p) ==
    IF ~e.alphavantage \/ ClassifyAsset(p) \in {"other"} THEN {EmptySeries}
    ELSE {EmptySeries} \cup
         [n : {MinBars - 1, ClosesLimit}, numeric : {TRUE}, iv1m : {FALSE},
          trend : {"up"}]

ClosesSources == <<"fetch_ohlc_finnhub", "fetch_ohlc_twelvedata", "fetch_ohlc_alphavantage">>

\* index of the source the closes loop breaks at (0: none returned anything)
FirstWithCloses(rs) ==
    IF \E i \in 1..Len(rs) : rs[i].n > 0
    THEN CHOOSE i \in 1..Len(rs) : rs[i].n > 0 /\ \A j \in 1..(i - 1) : rs[j].n = 0
    ELSE 0

-----------------------------------------------------------------------------
(* generate_ensemble_signal, step by step.  pc is the position of the call:   *)
(*   idle  no call running          news  before _news_risk_window            *)
(*   fast  before _mtf_from_base_1m gli   inside get_live_indicators          *)
(*   agg   before _aggregate_scores done  returned or raised                  *)

MaxClock == 2

\* FAST_CACHE_TTL=1, so that an entry expires before MaxClock
ShortTtl == 1

\* provider outcomes: every key combination, both filters on
DataEnvs ==
    [ mode : {"balanced"}, finnhub : BOOLEAN, twelvedata : BOOLEAN, alphavantage : BOOLEAN,
      strict_session : {"1"}, strict_news : {"1"}, fast_cache_ttl : {ShortTtl} ]
DataPairs == {"BTC/USDT", "EUR/USD", "XYZ"}

\* filters: every flag combination and pair, no provider key
FilterEnvs ==
    [ mode : {"balanced"}, finnhub : {FALSE}, twelvedata : {FALSE}, alphavantage : {FALSE},
      strict_session : {"1", "0"}, strict_news : {"1", "0"}, fast_cache_ttl : {ShortTtl} ]

ForceOrderShort == <<"5m", "3m">>
ForceOrder == <<"5m", "3m", "1m">>

\* the element after tf in a loop over order; "end" after the last one
NextTf(order, tf) ==
    LET i == CHOOSE j \in 1..Len(order) : order[j] = tf
    IN  IF i = Len(order) THEN "end" ELSE order[i + 1]

OkLive(m) == [kind |-> "ok", m |-> m]
NotOkLive == [kind |-> "notok", m |-> WithAdx(NeutralDefaults, <<NoValue, NoValue>>)]
RaiseLive == [kind |-> "raise", m |-> WithAdx(NeutralDefaults, <<NoValue, NoValue>>)]

\* _force_signal_from_tf: direction of a scored timeframe
ForceDir(s) ==
    IF s.dir # "FLAT" THEN s.dir
    ELSE IF s.m.macd_hist > 0 THEN "UP"
    ELSE IF s.m.macd_hist < 0 THEN "DOWN"
    ELSE IF s.m.ema_fast_over_slow THEN "UP" ELSE "DOWN"

\* _force_signal_from_tf: neither "continue" of the ADX / ATR% gate is taken
ForceGate(adx, atrp) ==
    /\ ~(adx = NoValue \/ adx < MinAdx)
    /\ ~(atrp = NoValue \/ ~(MinAtrPct <= atrp /\ atrp <= MaxAtrPct))

Abs(x) == IF x < 0 THEN -x ELSE x

ForcedFrom(s) ==
    [dir |-> ForceDir(s),
     confidence |-> Max2(2, Min2(4, 2 + (Abs(s.score) \div 2))),
     reasons |-> Take(Dedup(IF ForceDir(s) = "UP" THEN s.reasons_up ELSE s.reasons_down), 3)]

Init ==
    /\ \/ env \in DataEnvs /\ pair \in DataPairs
       \/ env \in FilterEnvs /\ pair \in Pairs
    /\ pc = "idle"
    /\ now = NoTime
    /\ cache = EmptyMtf
    /\ clock = 0
    /\ mtf = EmptyMtf
    /\ agg = NotOk
    /\ gli = NoGli
    /\ tried = <<>>
    /\ calls = <<>>
    /\ fetched = FALSE
    /\ result = NoResult
    /\ live = EmptyMtf
    /\ EvalIdle /\ RestIdle

\* entry and session filter: STRICT_SESSION_FILTER and not _market_open_for_asset(pair)
SessionFilter ==
    /\ pc = "idle"
    /\ IF FlagOn(env.strict_session)
       THEN \E t \in SessionReads(pair) :
               /\ now' = t
               /\ IF ~MarketOpenForAsset(pair, t)
                  THEN pc' = "done" /\ result' = SessionClosed
                  ELSE pc' = "news" /\ UNCHANGED result
       ELSE now' = NoTime /\ pc' = "news" /\ UNCHANGED result
    /\ UNCHANGED <<env, pair, cache, clock, mtf, agg, gli, tried, calls, fetched, live>>
    /\ UNCHANGED <<evalVars, restVars>>

\* if _news_risk_window(pair): the clock is read only when the flag is on
NewsFilter ==
    /\ pc = "news"
    /\ IF FlagOn(env.strict_news)
       THEN \E t \in NewsReads :
               /\ now' = t
               /\ IF NewsRiskWindow(pair, env.strict_news, t)
                  THEN pc' = "done" /\ result' = NewsWindow
                  ELSE pc' = "fast" /\ UNCHANGED result
       ELSE now' = NoTime /\ pc' = "fast" /\ UNCHANGED result
    /\ UNCHANGED <<env, pair, cache, clock, mtf, agg, gli, tried, calls, fetched, live>>
    /\ UNCHANGED <<evalVars, restVars>>

CacheHitStale(c, key, t) == key \in DOMAIN c
\* _cache_get(key): the value, or "miss" after dropping an expired entry
CacheHit(c, key, t) == key \in DOMAIN c /\ ~(t > c[key].exp)
CacheAfterGet(c, key, t) ==
    IF key \in DOMAIN c /\ t > c[key].exp
    THEN [k \in DOMAIN c \ {key} |-> c[k]]
    ELSE c
\* _cache_set(key, val, ttl_sec=4) under FAST_CACHE_TTL = ttl
CacheSet(c, key, val, t, ttl) ==
    [k \in DOMAIN c \cup {key} |->
        IF k = key THEN [exp |-> t + Max2(1, ttl), val |-> val] ELSE c[k]]

\* the three frames _mtf_from_base_1m builds from one 1m series
FastFrames(kl) ==
    [t \in TFs |->
        ScoreFromLive(ComputeIndicatorsOhlc(
            IF t = "1m" THEN kl
            ELSE IF t = "3m" THEN ResampleKlines(kl, 3)
            ELSE ResampleKlines(kl, 5)))]

\* _fetch_mtf, first half: _mtf_from_base_1m(pair)
MtfFromBase1m ==
    /\ pc = "fast"
    /\ now' = NoTime
    /\ IF CacheHit(cache, pair, clock)
       THEN /\ mtf' = cache[pair].val
            /\ pc' = "agg"
            /\ calls' = <<>>
            /\ UNCHANGED <<cache, gli, fetched, result>>
       ELSE LET c1 == CacheAfterGet(cache, pair, clock)
                crypto == ClassifyAsset(pair) = "crypto"
                called == crypto \/ env.finnhub
            IN  \E kl \in (IF crypto THEN FetchKlinesBinance("1m")
                           ELSE FetchKlinesFinnhub(env, pair, "1m")) :
                   /\ calls' = IF crypto THEN <<"fetch_klines_binance">>
                               ELSE IF env.finnhub THEN <<"fetch_klines_finnhub">>
                               ELSE <<>>
                   /\ fetched' = (fetched \/ called)
                   /\ IF kl.n = 0 \/ kl.n < FastMinBars
                      THEN /\ cache' = c1
                           /\ pc' = "gli"
                           /\ gli' = [caller |-> "fetch_mtf", tf |-> TFOrder[1], stage |-> "klines"]
                           /\ UNCHANGED <<mtf, result>>
                      ELSE IF ComputeIndicatorsOhlcRaises(kl)
                      THEN /\ cache' = c1
                           /\ pc' = "done"
                           /\ result' = Raised
                           /\ UNCHANGED <<mtf, gli>>
                      ELSE /\ mtf' = FastFrames(kl)
                           /\ cache' = CacheSet(c1, pair, FastFrames(kl), clock, env.fast_cache_ttl)
                           /\ pc' = "agg"
                           /\ UNCHANGED <<gli, result>>
    /\ UNCHANGED <<env, pair, clock, agg, tried, live>>
    /\ UNCHANGED <<evalVars, restVars>>

\* what the caller of get_live_indicators does with its result lv:
\* the loop body of _fetch_mtf, or of _force_signal_from_tf followed by the
\* forced / default return of generate_ensemble_signal
GliReturn(lv) ==
    IF lv.kind = "raise"
    THEN /\ pc' = "done" /\ result' = Raised /\ gli' = NoGli
         /\ UNCHANGED <<mtf, tried>>
    ELSE IF gli.caller = "fetch_mtf"
    THEN /\ mtf' = IF lv.kind = "ok"
                   THEN [t \in DOMAIN mtf \cup {gli.tf} |->
                            IF t = gli.tf THEN ScoreFromLive(lv.m) ELSE mtf[t]]
                   ELSE mtf
         /\ IF NextTf(TFOrder, gli.tf) = "end"
            THEN pc' = "agg" /\ gli' = NoGli
            ELSE pc' = "gli" /\ gli' = [gli EXCEPT !.tf = NextTf(TFOrder, gli.tf),
                                                   !.stage = "klines"]
         /\ UNCHANGED <<tried, result>>
    ELSE LET s == ScoreFromLive(lv.m)
         IN  IF lv.kind = "ok" /\ ForceGate(s.m.adx, s.m.atrp)
             THEN /\ pc' = "done" /\ result' = ForcedResult(ForcedFrom(s)) /\ gli' = NoGli
                  /\ UNCHANGED <<mtf, tried>>
             ELSE /\ tried' = Append(tried, [tf |-> gli.tf, ok |-> lv.kind = "ok",
                                             adx |-> lv.m.adx, atrp |-> lv.m.atrp])
                  /\ IF NextTf(ForceOrder, gli.tf) = "end"
                     THEN pc' = "done" /\ result' = DefaultResult /\ gli' = NoGli
                     ELSE /\ pc' = "gli"
                          /\ gli' = [gli EXCEPT !.tf = NextTf(ForceOrder, gli.tf),
                                                !.stage = "klines"]
                          /\ UNCHANGED result
                  /\ UNCHANGED mtf

\* get_live_indicators, OHLC part: one klines fetch, indicators if it has MinBars
GliKlines ==
    /\ pc = "gli" /\ gli.stage = "klines"
    /\ LET crypto == ClassifyAsset(pair) = "crypto"
       IN  \E r \in (IF crypto THEN FetchKlinesBinance(gli.tf)
                     ELSE FetchKlinesFinnhub(env, pair, gli.tf)) :
              /\ calls' = IF crypto THEN <<"fetch_klines_binance">>
                          ELSE IF env.finnhub THEN <<"fetch_klines_finnhub">>
                          ELSE <<>>
              /\ fetched' = (fetched \/ crypto \/ env.finnhub)
              /\ IF r.n > 0 /\ r.n >= MinBars
                 THEN LET kl == IF gli.tf = "3m" /\ r.numeric /\ r.iv1m
                                THEN ResampleKlines(r, 3) ELSE r
                      IN  GliReturn(IF ComputeIndicatorsOhlcRaises(kl) THEN RaiseLive
                                    ELSE OkLive(ComputeIndicatorsOhlc(kl)))
                 ELSE /\ gli' = [gli EXCEPT !.stage = "closes"]
                      /\ UNCHANGED <<pc, mtf, tried, result>>
    /\ UNCHANGED <<env, pair, now, cache, clock, agg, live>>
    /\ UNCHANGED <<evalVars, restVars>>

\* get_live_indicators, closes-only part: the loop over the three sources
GliCloses ==
    /\ pc = "gli" /\ gli.stage = "closes"
    /\ \E r1 \in FetchOhlcFinnhub(env, pair), r2 \in FetchOhlcTwelvedata(env, pair),
          r3 \in FetchOhlcAlphavantage(env, pair) :
          LET rs == <<r1, r2, r3>>
              k == FirstWithCloses(rs)
              closes == IF k = 0 THEN EmptySeries ELSE rs[k]
          IN  /\ calls' = calls \o SubSeq(ClosesSources, 1, IF k = 0 THEN 3 ELSE k)
              /\ fetched' = TRUE
              /\ GliReturn(IF closes.n = 0 \/ closes.n < MinBars THEN NotOkLive
                           ELSE IF ComputeIndicatorsRaises(closes) THEN RaiseLive
                           ELSE OkLive(WithAdx(ComputeIndicators(closes),
                                               <<NoValue, NoValue>>)))
    /\ UNCHANGED <<env, pair, now, cache, clock, agg, live>>
    /\ UNCHANGED <<evalVars, restVars>>

\* agg = _aggregate_scores(mtf); return it if ok, else enter _force_signal_from_tf
Aggregate ==
    /\ pc = "agg"
    /\ agg' = AggregateScores(mtf, env.mode)
    /\ IF agg'.ok
       THEN pc' = "done" /\ result' = AggResult(agg') /\ UNCHANGED gli
       ELSE /\ pc' = "gli"
            /\ gli' = [caller |-> "force", tf |-> ForceOrder[1], stage |-> "klines"]
            /\ UNCHANGED result
    /\ UNCHANGED <<env, pair, now, cache, clock, mtf, tried, calls, fetched, live>>
    /\ UNCHANGED <<evalVars, restVars>>

\* the caller takes the text (or the exception); the frame is gone
Return ==
    /\ pc = "done"
    /\ pc' = "idle"
    /\ now' = NoTime /\ mtf' = EmptyMtf /\ agg' = NotOk /\ gli' = NoGli
    /\ tried' = <<>> /\ calls' = <<>> /\ fetched' = FALSE /\ result' = NoResult
    /\ UNCHANGED <<env, pair, cache, clock, live>>
    /\ UNCHANGED <<evalVars, restVars>>

\* time.time() advances between calls (it matters only to a stored entry)
Tick ==
    /\ pc = "idle"
    /\ DOMAIN cache # {}
    /\ clock < MaxClock
    /\ clock' = clock + 1
    /\ UNCHANGED <<env, pair, pc, now, cache, mtf, agg, gli, tried, calls, fetched, result, live>>
    /\ UNCHANGED <<evalVars, restVars>>

Next ==
    \/ SessionFilter
    \/ NewsFilter
    \/ MtfFromBase1m
    \/ GliKlines
    \/ GliCloses
    \/ Aggregate
    \/ Return
    \/ Tick

Spec == Init /\ [][Next]_vars

-----------------------------------------------------------------------------
(* Claims about generate_ensemble_signal, under Spec *)

TextKinds == {"NO-TRADE", "AGG", "FORCED", "DEFAULT"}

\* C1 (as claimed): whatever the providers answer, a finished call has returned
\* one of the formatted results (NO-TRADE, aggregated, forced or default
\* direction); no exception reaches the caller.
C1_NeverRaises ==
    pc = "done" => result.kind \in TextKinds

\* the ADX / ATR% requirement of the forced branch, on a logged attempt
PassesAdxAtr(a) ==
    /\ a.adx # NoValue /\ a.adx >= 18
    /\ a.atrp # NoValue /\ a.atrp >= 2 /\ a.atrp <= 250

\* C2: the static default (UP, confidence 2, 'Fallback bias') is returned only
\* after the aggregate was computed and not ok and the forced branch went
\* through 5m, 3m and 1m in that order, each without data or failing the
\* ADX / ATR% gate.
C2_DefaultOnlyAfterForce ==
    result.kind = "DEFAULT" =>
        /\ result.dir = "UP" /\ result.confidence = 2
        /\ result.reasons = <<"Fallback bias">>
        /\ agg = AggregateScores(mtf, env.mode) /\ ~agg.ok
        /\ Len(tried) = 3
        /\ tried[1].tf = "5m" /\ tried[2].tf = "3m" /\ tried[3].tf = "1m"
        /\ \A i \in 1..3 : ~tried[i].ok \/ ~PassesAdxAtr(tried[i])

C2_Witness ==
    /\ result.kind = "DEFAULT"
    /\ DOMAIN mtf # {}
    /\ \E i \in 1..Len(tried) : ~tried[i].ok
    /\ \E i \in 1..Len(tried) : tried[i].ok /\ tried[i].adx = 10

\* the closure the claim gives for forex: Friday 21:00 UTC to Sunday 21:00 UTC
ForexClosed(t) ==
    \/ t.wd = 4 /\ t.hr >= 21
    \/ t.wd = 5
    \/ t.wd = 6 /\ t.hr < 21

BlockedBySession == result = SessionClosed

\* C7: with STRICT_SESSION_FILTER on, a call that finds the pair's market
\* closed returns NO-TRADE with confidence 0 at once: no provider adapter was
\* invoked, nothing was scored or aggregated and the fast cache is as it was.
\* For forex the market is closed from Friday 21:00 to Sunday 21:00 UTC; a
\* crypto pair is never blocked.
C7_ClosedSessionNoTrade ==
    /\ [](/\ (now.src = "session" /\ FlagOn(env.strict_session)
                /\ ClassifyAsset(pair) = "forex" /\ ForexClosed(now))
             => (pc = "done" /\ BlockedBySession)
          /\ (now.src = "session" /\ ClassifyAsset(pair) = "forex" /\ ~ForexClosed(now))
             => ~BlockedBySession
          /\ BlockedBySession
             => /\ FlagOn(env.strict_session) /\ ClassifyAsset(pair) # "crypto"
                /\ result.dir = "NO-TRADE" /\ result.confidence = 0
                /\ ~fetched /\ calls = <<>> /\ mtf = EmptyMtf /\ agg = NotOk
                /\ tried = <<>>)
    /\ [][BlockedBySession' => (BlockedBySession \/ cache' = cache)]_vars

C7_Witness ==
    /\ BlockedBySession
    /\ ClassifyAsset(pair) = "forex" /\ now.wd = 5
    /\ pair \in DOMAIN cache

BlockedByNews == result = NewsWindow

\* C8 (as claimed): with STRICT_NEWS_FILTER on, for every pair, a call whose
\* UTC minute is 0, 1, 2, 30, 31 or 32 returns the news NO-TRADE result.
C8_EveryPairBlocked ==
    (now.src = "news" /\ FlagOn(env.strict_news) /\ now.mi \in {0, 1, 2, 30, 31, 32})
        => BlockedByNews

\* C8 (amended): with STRICT_NEWS_FILTER on, a call for a forex, gold or index
\* pair that reaches the news check at minute 0, 1, 2, 30, 31 or 32 returns
\* the news NO-TRADE result (no direction, nothing fetched); at every other
\* minute, and for every other pair at every minute, the news filter lets the
\* call through to the data fetch.
C8_NewsWindowBlocks ==
    /\ (now.src = "news" /\ FlagOn(env.strict_news)
          /\ ClassifyAsset(pair) \in {"forex", "gold", "index"}
          /\ now.mi \in {0, 1, 2, 30, 31, 32})
       => (pc = "done" /\ BlockedByNews)
    /\ (now.src = "news"
          /\ ~(ClassifyAsset(pair) \in {"forex", "gold", "index"}
               /\ now.mi \in {0, 1, 2, 30, 31, 32}))
       => (pc = "fast" /\ result = NoResult)
    /\ BlockedByNews
       => /\ FlagOn(env.strict_news) /\ now.src = "news"
          /\ result.dir = "NO-TRADE" /\ result.confidence = 0
          /\ ~fetched /\ mtf = EmptyMtf

C8_Witness ==
    /\ BlockedByNews /\ now.mi = 31 /\ ClassifyAsset(pair) = "gold"

-----------------------------------------------------------------------------
(* Evaluation of served signals: _eval_option_a_crypto / _eval_option_a_finnhub, *)
(* evaluate_pending_signals and generate_24h_served_report.                      *)
(* Time is counted in half candles (a candle opens at 2 * slot), prices are      *)
(* integers, pnl_pct is in 1/100 %.  A row with outcome "" is pending; its       *)
(* exit_price / exit_time are NoValue and its pnl_pct is 0 until evaluated.      *)

ShortHorizon == 4 - 1
EvalHorizon == 4       \* exit_idx = idx + 4

Slots == 0..5
\* price paths the fetched candles follow: "rise" climbs by 1 a candle, "turn"
\* climbs, falls back to its first close and climbs again
Paths == {"rise", "turn"}
LogIds == {1, 2}

OpenTime(slot) == 2 * slot
\* Binance reports closeTime = openTime + interval - 1; fetch_klines_finnhub
\* sets ct_ms = ot_ms + sec * 1000
CloseTime(provider, slot) ==
    IF provider = "binance" THEN OpenTime(slot) + 1 ELSE OpenTime(slot) + 2
ClosePrice(path, slot) ==
    IF path = "rise" THEN 10 + slot ELSE <<10, 12, 13, 12, 10, 11>>[slot + 1]

RECURSIVE SortedSeq(_)
SortedSeq(S) ==
    IF S = {} THEN <<>>
    ELSE LET m == CHOOSE x \in S : \A y \in S : x <= y
         IN  <<m>> \o SortedSeq(S \ {m})

Candles(provider, S, path) ==
    LET sl == SortedSeq(S)
    IN  [i \in 1..Len(sl) |->
            [ot |-> OpenTime(sl[i]), ct |-> CloseTime(provider, sl[i]),
             close |-> ClosePrice(path, sl[i])]]

\* what fetch_klines_*(..., limit=400) hands to the evaluation: nothing, or
\* candles in ascending time order, with or without gaps
FetchedCandles(provider) ==
    {Candles(provider, S, path) : S \in SUBSET Slots, path \in Paths}

\* the for loop that finds idx (1-based; 0 is idx = None)
RECURSIVE EntryIdxFrom(_, _, _)
EntryIdxFrom(k, entry_ms, i) ==
    IF i > Len(k) THEN 0
    ELSE IF k[i].ot <= entry_ms /\ entry_ms < k[i].ct THEN i
    ELSE IF entry_ms <= k[i].ot THEN i
    ELSE EntryIdxFrom(k, entry_ms, i + 1)

PnlPctUnsigned(entry_price, exit_price, direction) ==
    ((exit_price - entry_price) * 10000) \div entry_price

PnlPct(entry_price, exit_price, direction) ==
    LET sign == IF direction = "UP" THEN 1 ELSE -1
    IN  sign * (((exit_price - entry_price) * 10000) \div entry_price)

\* _eval_option_a_crypto and _eval_option_a_finnhub after the fetch
EvalOptionA(k, entry_ms, direction) ==
    IF k = <<>> THEN NoEv
    ELSE LET idx == EntryIdxFrom(k, entry_ms, 1)
             exit_idx == idx + EvalHorizon
         IN  IF idx = 0 THEN NoEv
             ELSE IF exit_idx > Len(k) THEN NoEv
             ELSE LET pnl == PnlPct(k[idx].close, k[exit_idx].close, direction)
                  IN  [some |-> TRUE, entry_price |-> k[idx].close,
                       exit_price |-> k[exit_idx].close, pnl_pct |-> pnl,
                       exit_time |-> k[exit_idx].ct,
                       outcome |-> IF pnl > 0 THEN "WIN" ELSE "LOSS"]

\* rows as insert_signal_log leaves them
ServedRows ==
    [ pair : {"BTC/USDT", "EUR/USD"}, timeframe : {"1m"}, direction : {"UP", "DOWN"},
      entry_ms : {1, 2}, outcome : {""}, exit_price : {NoValue}, exit_time : {NoValue},
      pnl_pct : {0} ]

WithId(l, id) == [id |-> id, r |-> l[id]]

\* list_signal_logs_pending: outcome NULL or '', ORDER BY id ASC
ListPending(l) ==
    LET ids == SortedSeq({id \in DOMAIN l : l[id].outcome = ""})
    IN  [i \in 1..Len(ids) |-> WithId(l, ids[i])]

\* list_signal_logs_since: ORDER BY id DESC (every row is younger than 24 h)
ListSince(l) ==
    LET ids == SortedSeq(DOMAIN l)
    IN  [i \in 1..Len(ids) |-> WithId(l, ids[Len(ids) + 1 - i])]

\* generate_24h_served_report: by_pair in first-seen order, each group reversed
RECURSIVE GroupsInOrder(_, _)
GroupsInOrder(pairs, items) ==
    IF pairs = <<>> THEN <<>>
    ELSE LET group == SelectSeq(items, LAMBDA x : x.r.pair = Head(pairs))
         IN  [i \in 1..Len(group) |-> group[Len(group) + 1 - i]]
             \o GroupsInOrder(Tail(pairs), items)
ReportRows(l) ==
    GroupsInOrder(Dedup([i \in 1..Len(ListSince(l)) |-> ListSince(l)[i].r.pair]),
                  ListSince(l))

\* update_signal_evaluation
UpdateSignalEvaluation(l, id, e) ==
    [l EXCEPT ![id].exit_price = e.exit_price, ![id].exit_time = e.exit_time,
              ![id].pnl_pct = e.pnl_pct, ![id].outcome = e.outcome]

InitEval ==
    /\ env \in {[DefaultEnv EXCEPT !.finnhub = f] : f \in BOOLEAN}
    /\ pair = "EUR/USD"
    /\ pc = "idle"
    /\ now = NoTime
    /\ cache = EmptyMtf
    /\ clock = 0
    /\ mtf = EmptyMtf
    /\ agg = NotOk
    /\ gli = NoGli
    /\ tried = <<>>
    /\ calls = <<>>
    /\ fetched = FALSE
    /\ result = NoResult
    /\ live = EmptyMtf
    /\ logs \in [LogIds -> ServedRows]
    /\ job = NoJob
    /\ candles = <<>>
    /\ ev = NoEv
    /\ RestIdle

\* one row of either loop: fetch, evaluate, store
EvalAndStore(x, wanted) ==
    /\ \/ /\ ~wanted
          /\ candles' = <<>> /\ ev' = NoEv
       \/ /\ wanted /\ ClassifyAsset(x.r.pair) # "crypto" /\ ~env.finnhub
          /\ candles' = <<>> /\ ev' = NoEv
       \/ /\ wanted /\ (ClassifyAsset(x.r.pair) = "crypto" \/ env.finnhub)
          /\ \E k \in FetchedCandles(IF ClassifyAsset(x.r.pair) = "crypto"
                                     THEN "binance" ELSE "finnhub") :
                /\ candles' = k
                /\ ev' = EvalOptionA(k, x.r.entry_ms, x.r.direction)
    /\ logs' = IF ev'.some /\ ev'.exit_price # NoValue
               THEN UpdateSignalEvaluation(logs, x.id, ev') ELSE logs
    /\ job' = [job EXCEPT !.rows = Tail(job.rows), !.cur = x.id]

\* evaluate_pending_signals: rows = db.list_signal_logs_pending(limit=max_batch)
BeginEvaluate ==
    /\ job.kind = "none"
    /\ ListPending(logs) # <<>>
    /\ job' = [kind |-> "evaluate", rows |-> ListPending(logs), cur |-> 0]
    /\ UNCHANGED <<logs, candles, ev>>
    /\ UNCHANGED <<signalVars, restVars>>

\* evaluate_pending_signals: one pass of "for r in rows"
EvaluateRow ==
    /\ job.kind = "evaluate" /\ job.rows # <<>>
    /\ LET x == Head(job.rows)
       IN  EvalAndStore(x, x.r.pair # "" /\ x.r.direction \in {"UP", "DOWN"})
    /\ UNCHANGED <<signalVars, restVars>>

\* generate_24h_served_report: items = db.list_signal_logs_since(hours)
BeginReport ==
    /\ job.kind = "none"
    /\ ListSince(logs) # <<>>
    /\ job' = [kind |-> "report", rows |-> ReportRows(logs), cur |-> 0]
    /\ UNCHANGED <<logs, candles, ev>>
    /\ UNCHANGED <<signalVars, restVars>>

\* generate_24h_served_report: one pass of "for r in reversed(logs)"
ReportRow ==
    /\ job.kind = "report" /\ job.rows # <<>>
    /\ LET x == Head(job.rows)
       IN  EvalAndStore(x, x.r.outcome = "")
    /\ UNCHANGED <<signalVars, restVars>>

\* the loop is over; the handler returns
EndJob ==
    /\ job.kind # "none" /\ job.rows = <<>>
    /\ job' = NoJob /\ candles' = <<>> /\ ev' = NoEv
    /\ UNCHANGED logs
    /\ UNCHANGED <<signalVars, restVars>>

NextEval == BeginEvaluate \/ EvaluateRow \/ BeginReport \/ ReportRow \/ EndJob

SpecEval == InitEval /\ [][NextEval]_vars

-----------------------------------------------------------------------------
(* Claims about the evaluation of served signals, under SpecEval *)

\* the entry bar as the claims describe it: the bar whose [open_time,
\* close_time) holds entry_ms, else the first bar opening at or after it
\* (0: there is none)
ClaimedEntryIdx(k, entry_ms) ==
    LET holding == {i \in 1..Len(k) : k[i].ot <= entry_ms /\ entry_ms < k[i].ct}
        later   == {i \in 1..Len(k) : k[i].ot >= entry_ms}
    IN  IF holding # {} THEN CHOOSE i \in holding : \A j \in holding : i <= j
        ELSE IF later # {} THEN CHOOSE i \in later : \A j \in later : i <= j
        ELSE 0

BarsAfterEntry(k, entry_ms) ==
    IF ClaimedEntryIdx(k, entry_ms) = 0 THEN 0 ELSE Len(k) - ClaimedEntryIdx(k, entry_ms)

\* the row the latest loop pass worked on
CurEntryMs == logs[job.cur].entry_ms

\* C9: when the fetched series has fewer than 4 bars after the entry bar, the
\* evaluation returns None and the pass of evaluate_pending_signals or of
\* generate_24h_served_report leaves every log as it was: no WIN or LOSS is
\* recorded for an incomplete horizon.
C9_ShortHorizonStaysPending ==
    /\ []((job.cur # 0 /\ BarsAfterEntry(candles, CurEntryMs) < 4) => ~ev.some)
    /\ [][(job'.cur # 0 /\ BarsAfterEntry(candles', logs[job'.cur].entry_ms) < 4)
             => logs' = logs]_vars

C9_Witness ==
    /\ job.kind = "evaluate" /\ job.cur = 2
    /\ logs[1].outcome \in {"WIN", "LOSS"}
    /\ ClaimedEntryIdx(candles, CurEntryMs) # 0
    /\ BarsAfterEntry(candles, CurEntryMs) = 3
    /\ logs[2].outcome = "" /\ logs[2].exit_price = NoValue

\* C10 (as claimed): an evaluation result comes from the claimed entry bar and
\* from the 4th bar after it, and none is produced for an entry_time that lies
\* before every fetched bar.
C10_EntryBarRelated ==
    (job.cur # 0 /\ ev.some) =>
        LET i == ClaimedEntryIdx(candles, CurEntryMs)
        IN  /\ i # 0 /\ i + 4 <= Len(candles)
            /\ ev.entry_price = candles[i].close
            /\ ev.exit_price = candles[i + 4].close
            /\ ev.exit_time = candles[i + 4].ct
            /\ ~(CurEntryMs < candles[1].ot)

\* C11: every evaluation result carries the closes of a fetched candle and of
\* the 4th candle after it; its pnl_pct is the percentage change between the
\* two (in 1/100 %, rounded down), positive for UP exactly when the exit close
\* is above the entry close and for DOWN exactly when it is below; the outcome
\* is WIN exactly when pnl_pct > 0 and LOSS otherwise, an unchanged price
\* included; and these are the values update_signal_evaluation stores.
C11_SignedPnlAndOutcome ==
    (job.cur # 0 /\ ev.some /\ logs[job.cur].direction \in {"UP", "DOWN"}) =>
        LET direction == logs[job.cur].direction
            change    == (ev.exit_price - ev.entry_price) * 10000
            signed    == IF direction = "UP" THEN change ELSE -change
        IN  /\ \E i \in 1..Len(candles) :
                  /\ i + 4 <= Len(candles)
                  /\ ev.entry_price = candles[i].close
                  /\ ev.exit_price = candles[i + 4].close
            /\ Abs(ev.pnl_pct * ev.entry_price - signed) < ev.entry_price
            /\ direction = "UP" => (ev.pnl_pct > 0 <=> ev.exit_price > ev.entry_price)
            /\ direction = "DOWN" => (ev.pnl_pct > 0 <=> ev.exit_price < ev.entry_price)
            /\ ev.pnl_pct > 0 => ev.outcome = "WIN"
            /\ ~(ev.pnl_pct > 0) => ev.outcome = "LOSS"
            /\ ev.exit_price = ev.entry_price => ev.outcome = "LOSS"
            /\ logs[job.cur].pnl_pct = ev.pnl_pct
            /\ logs[job.cur].outcome = ev.outcome
            /\ logs[job.cur].exit_price = ev.exit_price

\* an UP signal whose exit close equals its entry close is stored as a LOSS
C11_Witness ==
    /\ job.cur # 0 /\ ev.some /\ logs[job.cur].direction = "UP"
    /\ ev.exit_price = ev.entry_price
    /\ logs[job.cur].outcome = "LOSS" /\ logs[job.cur].pnl_pct = 0

-----------------------------------------------------------------------------
(* Delivery of signals: on_text and on_signal_timeframe of app.py send the   *)
(* signal, start _after_send, which logs the served signal and starts the    *)
(* _post_update timers; evaluate_pending_signals and                         *)
(* generate_24h_served_report then work on the table.                        *)

MaxSent == 1

\* direction_from_signal_text(text) or ""
Directions == {"UP", "DOWN", ""}

\* (tf_label, delay) of the update timers, in firing order
UpdateDelays == <<55, 175, 295>>

SignalIdle ==
    /\ env = DefaultEnv /\ pair = "EUR/USD" /\ pc = "idle" /\ now = NoTime
    /\ cache = EmptyMtf /\ clock = 0 /\ mtf = EmptyMtf /\ agg = NotOk
    /\ gli = NoGli /\ tried = <<>> /\ calls = <<>> /\ fetched = FALSE
    /\ result = NoResult /\ live = EmptyMtf

InitServe ==
    /\ SignalIdle /\ EvalIdle /\ OtherIdle("serve")
    /\ signal_logs = <<>>
    /\ sent = <<>>
    /\ threads = {}
    /\ report = NoValue

\* db.insert_signal_log(..., direction=direction, source=source, ...)
InsertSignalLog(t, sig, direction, source) ==
    Append(t, [sig |-> sig, direction |-> direction, source |-> source, outcome |-> ""])

\* on_text / on_signal_timeframe: bot.send_message(text + footer), then
\* threading.Thread(target=_after_send).start()
Deliver ==
    /\ Len(sent) < MaxSent
    /\ \E direction \in Directions :
          /\ sent' = Append(sent, direction)
          /\ threads' = threads \cup {[sig |-> Len(sent) + 1, delay |-> 0, urow |-> FALSE]}
    /\ report' = NoValue
    /\ UNCHANGED signal_logs
    /\ UNCHANGED <<signalVars, evalVars>> /\ OtherUnchanged("serve")

\* _after_send / _after_send2: the details message, the two insert_signal_log
\* calls (skipped when no user row is found), the timers for UP and DOWN
AfterSend ==
    /\ \E th \in threads :
          /\ th.delay = 0
          /\ \E urow \in BOOLEAN :
                /\ signal_logs' =
                      IF urow
                      THEN InsertSignalLog(InsertSignalLog(signal_logs, th.sig,
                                                           sent[th.sig], "quota"),
                                           th.sig, sent[th.sig], "details")
                      ELSE signal_logs
                /\ threads' = (threads \ {th}) \cup
                      IF sent[th.sig] \in {"UP", "DOWN"}
                      THEN {[sig |-> th.sig, delay |-> UpdateDelays[i], urow |-> urow] :
                                i \in 1..Len(UpdateDelays)}
                      ELSE {}
    /\ report' = NoValue
    /\ UNCHANGED sent
    /\ UNCHANGED <<signalVars, evalVars>> /\ OtherUnchanged("serve")

\* _post_update / _post_update2 when its threading.Timer fires: the update
\* message and one insert_signal_log with source update:<tf_label>
PostUpdate ==
    /\ \E th \in threads :
          /\ th.delay > 0
          /\ \A o \in threads : o.sig = th.sig => o.delay >= th.delay
          /\ signal_logs' = IF th.urow
                            THEN InsertSignalLog(signal_logs, th.sig, sent[th.sig], "update")
                            ELSE signal_logs
          /\ threads' = threads \ {th}
    /\ report' = NoValue
    /\ UNCHANGED sent
    /\ UNCHANGED <<signalVars, evalVars>> /\ OtherUnchanged("serve")

\* rows of signal_logs without outcome
PendingIds(t) == {i \in 1..Len(t) : t[i].outcome = ""}

\* update_signal_evaluation for the rows whose evaluation returned a result
Evaluated(t, done) ==
    [i \in 1..Len(t) |-> IF i \in DOMAIN done /\ done[i] # ""
                         THEN [t[i] EXCEPT !.outcome = done[i]] ELSE t[i]]

\* what _eval_option_a_* returns for a row: None ("") or an outcome
EvalOutcomes == {"", "WIN", "LOSS"}

\* evaluate_pending_signals: rows without UP or DOWN are skipped
EvaluatePendingSignals ==
    /\ PendingIds(signal_logs) # {}
    /\ \E done \in [{i \in PendingIds(signal_logs) :
                        signal_logs[i].direction \in {"UP", "DOWN"}} -> EvalOutcomes] :
          signal_logs' = Evaluated(signal_logs, done)
    /\ report' = NoValue
    /\ UNCHANGED <<sent, threads>>
    /\ UNCHANGED <<signalVars, evalVars>> /\ OtherUnchanged("serve")

\* total of generate_24h_served_report: rows with an outcome
ReportTotal(t) == Cardinality({i \in 1..Len(t) : t[i].outcome # ""})

\* generate_24h_served_report: every row without outcome is evaluated,
\* whatever its direction; total counts every row with an outcome
Generate24hServedReport ==
    /\ signal_logs # <<>>
    /\ \E done \in [PendingIds(signal_logs) -> EvalOutcomes] :
          /\ signal_logs' = Evaluated(signal_logs, done)
          /\ report' = ReportTotal(signal_logs')
    /\ UNCHANGED <<sent, threads>>
    /\ UNCHANGED <<signalVars, evalVars>> /\ OtherUnchanged("serve")

NextServe ==
    \/ Deliver \/ AfterSend \/ PostUpdate
    \/ EvaluatePendingSignals \/ Generate24hServedReport

SpecServe == InitServe /\ [][NextServe]_vars

\* rows logged for a delivered signal, and the delivered signals that have
\* an evaluated row
RowsOf(sig) == {i \in 1..Len(signal_logs) : signal_logs[i].sig = sig}
EvaluatedSignals ==
    {sig \in 1..Len(sent) : \E i \in RowsOf(sig) : signal_logs[i].outcome # ""}

\* C12 (as claimed): a delivered signal has at most one row in signal_logs,
\* exactly one once its _after_send has logged it, that row carries the
\* signal's direction, and the total of a report equals the number of
\* delivered signals that have been evaluated.
C12_OneRowPerSignal ==
    /\ \A sig \in 1..Len(sent) :
          /\ Cardinality(RowsOf(sig)) <= 1
          /\ \A i \in RowsOf(sig) : signal_logs[i].direction = sent[sig]
    /\ report # NoValue => report = Cardinality(EvaluatedSignals)

-----------------------------------------------------------------------------
(* The adapter entry points as single calls: get_live_indicators,            *)
(* get_entry_price and the candle fetch of _eval_option_a_*.  invoked lists  *)
(* the provider adapters called, each with the timeframe asked and whether   *)
(* the entry point took its answer as data (the test after the call: "if     *)
(* closes", "kl and len(kl) >= 60"); series describes the series the result came from: its   *)
(* provider, the minutes one bar covers (res), its length n and whether      *)
(* _resample_klines was applied.                                             *)

EntryPoints == {"get_live_indicators", "get_entry_price", "_eval_option_a"}

TfMinutes(tf) == CASE tf = "1m" -> 1 [] tf = "3m" -> 3 [] OTHER -> 5

\* _tf_maps: minutes per bar of what a provider is asked for (Binance takes
\* the timeframe as its interval)
ProviderRes(provider, tf) ==
    CASE provider = "finnhub"      -> (IF tf = "5m" THEN 5 ELSE 1)
      [] provider = "alphavantage" -> (IF tf = "1m" THEN 1 ELSE 5)
      [] OTHER                     -> TfMinutes(tf)

Call(adapter, provider, tf, data) ==
    [adapter |-> adapter, provider |-> provider, tf |-> tf, data |-> data]

ProviderOf(adapter) ==
    CASE adapter \in {"fetch_klines_binance", "fetch_ohlc_binance"} -> "binance"
      [] adapter \in {"fetch_klines_finnhub", "fetch_ohlc_finnhub"} -> "finnhub"
      [] adapter = "fetch_ohlc_twelvedata"                          -> "twelvedata"
      [] OTHER                                                      -> "alphavantage"

InitAdapter ==
    /\ env \in [ mode : {"pro"}, finnhub : BOOLEAN, twelvedata : BOOLEAN,
                 alphavantage : BOOLEAN, strict_session : {"1"}, strict_news : {"1"},
                 fast_cache_ttl : {4} ]
    /\ pair \in Pairs
    /\ pc = "idle" /\ now = NoTime /\ cache = EmptyMtf /\ clock = 0 /\ mtf = EmptyMtf
    /\ agg = NotOk /\ gli = NoGli /\ tried = <<>> /\ calls = <<>> /\ fetched = FALSE
    /\ result = NoResult /\ live = EmptyMtf
    /\ EvalIdle /\ OtherIdle("adapter")
    /\ entry \in [fn : EntryPoints, tf : TFs]
    /\ invoked = <<>>
    /\ series = NoSeries
    /\ out = NoOut

\* the klines fetch of get_live_indicators and of the evaluators
KlinesCall(data) ==
    IF ClassifyAsset(pair) = "crypto"
    THEN <<Call("fetch_klines_binance", "binance", entry.tf, data)>>
    ELSE IF env.finnhub
    THEN <<Call("fetch_klines_finnhub", "finnhub", entry.tf, data)>>
    ELSE <<>>

KlinesProvider == IF ClassifyAsset(pair) = "crypto" THEN "binance" ELSE "finnhub"

\* get_live_indicators(pair, timeframe)
GetLiveIndicators ==
    /\ entry.fn = "get_live_indicators" /\ out = NoOut
    /\ \E r \in (IF ClassifyAsset(pair) = "crypto" THEN FetchKlinesBinance(entry.tf)
                 ELSE FetchKlinesFinnhub(env, pair, entry.tf)),
          r1 \in FetchOhlcFinnhub(env, pair), r2 \in FetchOhlcTwelvedata(env, pair),
          r3 \in FetchOhlcAlphavantage(env, pair) :
          IF r.n > 0 /\ r.n >= MinBars
          THEN LET resample == entry.tf = "3m" /\ r.numeric /\ r.iv1m
                   kl == IF resample THEN ResampleKlines(r, 3) ELSE r
               IN  /\ invoked' = KlinesCall(TRUE)
                   /\ series' = [provider |-> KlinesProvider,
                                 res |-> ProviderRes(KlinesProvider, entry.tf)
                                            * (IF resample THEN 3 ELSE 1),
                                 n |-> kl.n, resampled |-> resample]
                   /\ out' = IF ComputeIndicatorsOhlcRaises(kl) THEN RaiseLive
                             ELSE OkLive(ComputeIndicatorsOhlc(kl))
          ELSE LET rs == <<r1, r2, r3>>
                   k == FirstWithCloses(rs)
                   closes == IF k = 0 THEN EmptySeries ELSE rs[k]
                   last == IF k = 0 THEN 3 ELSE k
               IN  /\ invoked' = KlinesCall(FALSE) \o
                          [i \in 1..last |->
                              Call(ClosesSources[i], ProviderOf(ClosesSources[i]),
                                   entry.tf, rs[i].n > 0)]
                   /\ series' = IF k = 0 THEN NoSeries
                                ELSE [provider |-> ProviderOf(ClosesSources[k]),
                                      res |-> ProviderRes(ProviderOf(ClosesSources[k]),
                                                          entry.tf),
                                      n |-> closes.n, resampled |-> FALSE]
                   /\ out' = IF closes.n = 0 \/ closes.n < MinBars THEN NotOkLive
                             ELSE IF ComputeIndicatorsRaises(closes) THEN RaiseLive
                             ELSE OkLive(WithAdx(ComputeIndicators(closes),
                                                 <<NoValue, NoValue>>))
    /\ UNCHANGED <<entry, signalVars, evalVars>> /\ OtherUnchanged("adapter")

\* get_entry_price: the adapters in the order the function calls them, each
\* with the timeframe it is given and whether a float() failure on its
\* answer is caught (guarded)
EntryPricePlan(p, tf) ==
    LET normalized_tf == IF tf = "3m" THEN "1m" ELSE tf
    IN  IF ClassifyAsset(p) = "crypto"
        THEN << [adapter |-> "fetch_klines_binance", tf |-> tf, guarded |-> TRUE],
                [adapter |-> "fetch_ohlc_binance", tf |-> tf, guarded |-> TRUE] >>
        ELSE << [adapter |-> "fetch_ohlc_finnhub", tf |-> normalized_tf, guarded |-> FALSE],
                [adapter |-> "fetch_klines_finnhub", tf |-> "1m", guarded |-> TRUE],
                [adapter |-> "fetch_ohlc_finnhub", tf |-> "1m", guarded |-> TRUE],
                [adapter |-> "fetch_ohlc_finnhub", tf |-> "5m", guarded |-> TRUE],
                [adapter |-> "fetch_ohlc_alphavantage", tf |-> normalized_tf, guarded |-> TRUE],
                [adapter |-> "fetch_ohlc_twelvedata", tf |-> normalized_tf, guarded |-> TRUE] >>

\* what an adapter can answer: nothing, closes, or (raw JSON lists only) a
\* last value float() rejects
Answers(e, p, adapter) ==
    LET provider == ProviderOf(adapter)
        keyed == CASE provider = "finnhub"      -> e.finnhub /\ ClassifyAsset(p) # "other"
                   [] provider = "twelvedata"   -> e.twelvedata
                   [] provider = "alphavantage" -> e.alphavantage /\ ClassifyAsset(p) # "other"
                   [] OTHER                     -> TRUE
    IN  IF ~keyed THEN {"none"}
        ELSE IF adapter \in {"fetch_ohlc_finnhub", "fetch_klines_binance"}
        THEN {"none", "data", "bad"}
        ELSE {"none", "data"}

\* index of the plan step get_entry_price returns (or raises) at; 0: None
ReturnsAt(plan, ans) ==
    LET stops == {i \in 1..Len(plan) :
                     ans[i] = "data" \/ (ans[i] = "bad" /\ ~plan[i].guarded)}
    IN  IF stops = {} THEN 0 ELSE CHOOSE i \in stops : \A j \in stops : i <= j

PriceOut(kind) == [kind |-> kind, m |-> NoOut.m]

\* get_entry_price(pair, timeframe)
GetEntryPrice ==
    /\ entry.fn = "get_entry_price" /\ out = NoOut
    /\ LET plan == EntryPricePlan(pair, entry.tf)
       IN  \E ans \in [1..Len(plan) -> {"none", "data", "bad"}] :
              /\ \A i \in 1..Len(plan) : ans[i] \in Answers(env, pair, plan[i].adapter)
              /\ LET k == ReturnsAt(plan, ans)
                     last == IF k = 0 THEN Len(plan) ELSE k
                 IN  /\ invoked' = [i \in 1..last |->
                                      Call(plan[i].adapter, ProviderOf(plan[i].adapter),
                                           plan[i].tf, ans[i] = "data")]
                     /\ series' = IF k = 0 \/ ans[last] # "data" THEN NoSeries
                                  ELSE [provider |-> ProviderOf(plan[k].adapter),
                                        res |-> ProviderRes(ProviderOf(plan[k].adapter),
                                                            plan[k].tf),
                                        n |-> 1, resampled |-> FALSE]
                     /\ out' = PriceOut(IF k = 0 THEN "none"
                                        ELSE IF ans[k] = "data" THEN "price" ELSE "raise")
    /\ UNCHANGED <<entry, signalVars, evalVars>> /\ OtherUnchanged("adapter")

\* kl = fetch_klines_binance(sym, timeframe, limit=400) of _eval_option_a_crypto,
\* kl = fetch_klines_finnhub(pair, timeframe, limit=400) of _eval_option_a_finnhub,
\* called by evaluate_pending_signals for crypto or with a Finnhub key; the
\* result is taken EvalHorizon bars of kl after the entry bar
EvalFetch ==
    /\ entry.fn = "_eval_option_a" /\ out = NoOut
    /\ ClassifyAsset(pair) = "crypto" \/ env.finnhub
    /\ \E r \in (IF ClassifyAsset(pair) = "crypto" THEN FetchKlinesBinance(entry.tf)
                 ELSE FetchKlinesFinnhub(env, pair, entry.tf)) :
          /\ invoked' = KlinesCall(r.n > 0)
          /\ series' = IF r.n = 0 THEN NoSeries
                       ELSE [provider |-> KlinesProvider,
                             res |-> ProviderRes(KlinesProvider, entry.tf),
                             n |-> r.n, resampled |-> FALSE]
          /\ out' = PriceOut(IF r.n > EvalHorizon THEN "evaluated" ELSE "none")
    /\ UNCHANGED <<entry, signalVars, evalVars>> /\ OtherUnchanged("adapter")

NextAdapter == GetLiveIndicators \/ GetEntryPrice \/ EvalFetch

SpecAdapter == InitAdapter /\ [][NextAdapter]_vars

-----------------------------------------------------------------------------
(* Claims about the adapter entry points, under SpecAdapter *)

\* place of a provider in the priority order
Priority(provider) ==
    CASE provider = "binance"    -> 0
      [] provider = "finnhub"    -> 1
      [] provider = "twelvedata" -> 2
      [] OTHER                   -> 3

OnlyTwelvedataKey == env.twelvedata /\ ~env.finnhub /\ ~env.alphavantage

InvokedProviders == {invoked[i].provider : i \in 1..Len(invoked)}

\* calls made in priority order, a call to a later provider only after the
\* calls to every earlier one returned no data
InPriorityOrder ==
    \A i, j \in 1..Len(invoked) :
        (i < j /\ invoked[i].provider # invoked[j].provider) =>
            /\ Priority(invoked[i].provider) < Priority(invoked[j].provider)
            /\ ~invoked[i].data

\* C13 (as claimed): get_live_indicators and get_entry_price call the
\* providers in the order Finnhub, TwelveData, AlphaVantage, a later one only
\* after the earlier ones returned no data; for a forex pair with only the
\* TwelveData key, when TwelveData answers, Finnhub was called first,
\* TwelveData answered last and AlphaVantage was not called.
C13_ProviderOrder ==
    (entry.fn \in {"get_live_indicators", "get_entry_price"} /\ out # NoOut) =>
        /\ InPriorityOrder
        /\ (/\ ClassifyAsset(pair) = "forex" /\ OnlyTwelvedataKey
            /\ \E i \in 1..Len(invoked) :
                  invoked[i].provider = "twelvedata" /\ invoked[i].data)
           => /\ invoked[1].provider = "finnhub"
              /\ invoked[Len(invoked)].provider = "twelvedata"
              /\ "alphavantage" \notin InvokedProviders

\* the same statement for get_live_indicators alone
C13_LiveIndicatorsOrder ==
    entry.fn = "get_live_indicators" => C13_ProviderOrder

\* C14 (as claimed): whatever get_live_indicators computes indicators from,
\* or an evaluator takes its entry and exit bars from, for a '3m' request
\* answered by Finnhub has been resampled and has three-minute bars.
C14_Finnhub3mResampled ==
    (/\ entry.tf = "3m" /\ series.provider = "finnhub"
     /\ \/ entry.fn = "get_live_indicators" /\ out.kind = "ok"
        \/ entry.fn = "_eval_option_a" /\ out.kind = "evaluated")
    => (series.resampled /\ series.res = 3)

\* C15 (as claimed): get_live_indicators answers ok only with indicators
\* computed from at least 60 bars of the requested timeframe, never with the
\* neutral defaults of compute_indicators.
C15_OkMeansEnoughBars ==
    (entry.fn = "get_live_indicators" /\ out.kind = "ok") =>
        /\ series.n >= MinBars
        /\ series.res = TfMinutes(entry.tf)
        /\ [f \in DOMAIN NeutralDefaults |-> out.m[f]] # NeutralDefaults

-----------------------------------------------------------------------------
(* _resample_klines on candle rows [openTimeMs, open, high, low, close,      *)
(* volume, closeTimeMs] (Python index i is element i + 1 here).  Times are   *)
(* in seconds, prices and volumes small integers.                            *)

MaxKl == 6
Groups == {1, 2, 3}

\* open, high, low, close, volume of the candles a series is drawn from
Shapes == { <<2, 3, 1, 2, 1>>, <<2, 2, 0, 1, 2>>, <<1, 4, 1, 3, 0>> }

\* one-minute candles as fetch_klines_finnhub builds them
KlineRows(sh) ==
    [i \in 1..Len(sh) |->
        <<60 * (i - 1), sh[i][1], sh[i][2], sh[i][3], sh[i][4], sh[i][5], 60 * (i - 1) + 60>>]

Column(seg, col) == [i \in 1..Len(seg) |-> seg[i][col]]
MaxOf(xs) == CHOOSE m \in {xs[i] : i \in 1..Len(xs)} : \A i \in 1..Len(xs) : m >= xs[i]
MinOf(xs) == CHOOSE m \in {xs[i] : i \in 1..Len(xs)} : \A i \in 1..Len(xs) : m <= xs[i]

SegFirstClose(seg) == seg[1][5]
\* c = float(seg[-1][4])
SegClose(seg) == seg[Len(seg)][5]

\* _resample_klines(kl, group)
ResampleRows(kl, group) ==
    IF group <= 1 THEN kl
    ELSE LET take == (Len(kl) \div group) * group
         IN  [j \in 1..(take \div group) |->
                LET seg == SubSeq(kl, (j - 1) * group + 1, j * group)
                    ot == seg[1][1]
                    ct == IF Len(seg[Len(seg)]) > 6 THEN seg[Len(seg)][7]
                          ELSE ot + group * 60
                IN  <<ot, seg[1][2], MaxOf(Column(seg, 3)), MinOf(Column(seg, 4)),
                      SegClose(seg), SeqSum(Column(seg, 6)), ct>>]

InitResample ==
    /\ SignalIdle /\ EvalIdle /\ OtherIdle("resample")
    /\ klines \in {KlineRows(sh) : sh \in UNION {[1..n -> Shapes] : n \in 0..MaxKl}}
    /\ grp \in Groups
    /\ resampled = [done |-> FALSE, out |-> <<>>]

Resample ==
    /\ ~resampled.done
    /\ resampled' = [done |-> TRUE, out |-> ResampleRows(klines, grp)]
    /\ UNCHANGED <<klines, grp, signalVars, evalVars>> /\ OtherUnchanged("resample")

NextResample == Resample

SpecResample == InitResample /\ [][NextResample]_vars

\* the rows of kl that make up the j-th group of grp
GroupOf(j) == {i \in 1..Len(klines) : (j - 1) * grp < i /\ i <= j * grp}

\* C16: for group > 1 the result has floor(len(kl) / group) candles and the
\* j-th takes its open time and open from the first row of the j-th group,
\* its close time and close from the last, its high and low as the maximum
\* and minimum over the group and its volume as the group's sum; rows after
\* the last full group appear nowhere.
C16_ResampleGroups ==
    (resampled.done /\ grp > 1) =>
        /\ Len(resampled.out) = Len(klines) \div grp
        /\ \A j \in 1..Len(resampled.out) :
              LET first == (j - 1) * grp + 1
                  last == j * grp
                  c == resampled.out[j]
              IN  /\ last <= Len(klines)
                  /\ c[1] = klines[first][1] /\ c[2] = klines[first][2]
                  /\ c[5] = klines[last][5] /\ c[7] = klines[last][7]
                  /\ \A i \in GroupOf(j) : c[3] >= klines[i][3] /\ c[4] <= klines[i][4]
                  /\ \E i \in GroupOf(j) : c[3] = klines[i][3]
                  /\ \E i \in GroupOf(j) : c[4] = klines[i][4]
                  /\ c[6] = SeqSum([i \in 1..grp |-> klines[first + i - 1][6]])

\* five one-minute candles in groups of three: one candle, the last two dropped,
\* whose high comes from inside the group and whose close differs from the first
C16_Witness ==
    /\ resampled.done /\ grp = 3 /\ Len(klines) = 5 /\ Len(resampled.out) = 1
    /\ resampled.out[1][3] > klines[1][3]
    /\ resampled.out[1][5] # klines[1][5]
    /\ resampled.out[1][7] = 180

-----------------------------------------------------------------------------
(* Threads calling _mtf_from_base_1m for one pair.  Each access to           *)
(* _FAST_CACHE (the .get of _cache_get, its del, the item assignment of      *)
(* _cache_set) is one step; a thread keeps what it read in locals.           *)

Threads == {1, 2}
CallsBefore == {0, 1}
MaxTime == 3

\* FAST_CACHE_TTL values the threads run under
TtlValues == {0, 2}

NoRet == [kind |-> "none", val |-> EmptyMtf]
\* pc: idle (not in a call; ret is what the last call returned), got, del,
\* fetch, set; snap is exp_val as read by .get, at the clock _cache_get read
ThreadStart == [pc |-> "idle", snap |-> EmptyMtf, at |-> 0, out |-> EmptyMtf,
                ret |-> NoRet, n |-> 0]

\* the 1m series a fetch can bring that reach FastMinBars
FastSeries == [n : {KlineLimit}, numeric : {TRUE}, iv1m : {TRUE}, trend : Trends]

InitThreads ==
    /\ env \in {[DefaultEnv EXCEPT !.fast_cache_ttl = ttl] : ttl \in TtlValues}
    /\ pair = "BTC/USDT"
    /\ pc = "idle" /\ now = NoTime /\ cache = EmptyMtf /\ clock = 0 /\ mtf = EmptyMtf
    /\ agg = NotOk /\ gli = NoGli /\ tried = <<>> /\ calls = <<>> /\ fetched = FALSE
    /\ result = NoResult /\ live = EmptyMtf
    /\ EvalIdle /\ OtherIdle("thread")
    /\ thr = [t \in Threads |-> ThreadStart]
    /\ writes = {}

\* nothing outside _FAST_CACHE, the clock and the threads' locals changes
ThreadFrame ==
    /\ UNCHANGED <<env, pair, pc, now, mtf, agg, gli, tried, calls, fetched, result, live>>
    /\ UNCHANGED evalVars /\ OtherUnchanged("thread")

\* try: del _FAST_CACHE[key] / except Exception: pass
DelSurvivesIfPresent(c, key) == key \in DOMAIN c
DelSurvives(c, key) == TRUE

\* cached = _cache_get(ckey), first statement: exp_val = _FAST_CACHE.get(key)
CacheRead(t) ==
    /\ thr[t].pc = "idle" /\ thr[t].n \in CallsBefore
    /\ thr' = [thr EXCEPT ![t] = [pc |-> "got",
                                snap |-> [k \in DOMAIN cache \cap {pair} |-> cache[k]],
                                at |-> 0, out |-> EmptyMtf, ret |-> NoRet,
                                n |-> thr[t].n + 1]]
    /\ UNCHANGED <<cache, clock, writes>> /\ ThreadFrame

\* _cache_get: "if not exp_val", then "if time.time() > exp"; a hit ends the call
CacheCompare(t) ==
    /\ thr[t].pc = "got"
    /\ thr' = [thr EXCEPT ![t] =
                 IF pair \notin DOMAIN thr[t].snap THEN [@ EXCEPT !.pc = "fetch"]
                 ELSE IF CacheHit(thr[t].snap, pair, clock)
                 THEN [@ EXCEPT !.pc = "idle", !.at = clock,
                                !.ret = [kind |-> "hit", val |-> thr[t].snap[pair].val]]
                 ELSE [@ EXCEPT !.pc = "del", !.at = clock]]
    /\ UNCHANGED <<cache, clock, writes>> /\ ThreadFrame

\* _cache_get: del _FAST_CACHE[key] inside try / except, return None
CacheDel(t) ==
    /\ thr[t].pc = "del"
    /\ cache' = [k \in DOMAIN cache \ {pair} |-> cache[k]]
    /\ thr' = [thr EXCEPT ![t].pc = IF DelSurvives(cache, pair) THEN "fetch" ELSE "error"]
    /\ UNCHANGED <<clock, writes>> /\ ThreadFrame

\* the fetch and the three frames; None when the fetch brings too little
FetchFrames(t) ==
    /\ thr[t].pc = "fetch"
    /\ \/ thr' = [thr EXCEPT ![t].pc = "idle", ![t].ret = NoRet]
       \/ \E kl \in FastSeries :
             thr' = [thr EXCEPT ![t].pc = "set", ![t].out = FastFrames(kl)]
    /\ UNCHANGED <<cache, clock, writes>> /\ ThreadFrame

\* _cache_set(ckey, out, ttl_sec=4); return out
CacheStore(t) ==
    /\ thr[t].pc = "set"
    /\ cache' = CacheSet(cache, pair, thr[t].out, clock, env.fast_cache_ttl)
    /\ writes' = writes \cup {[exp |-> cache'[pair].exp, val |-> cache'[pair].val,
                               at |-> clock]}
    /\ thr' = [thr EXCEPT ![t].pc = "idle",
                        ![t].ret = [kind |-> "fetched", val |-> thr[t].out]]
    /\ UNCHANGED clock /\ ThreadFrame

\* time.time() moves on
TickThreads ==
    /\ clock < MaxTime
    /\ clock' = clock + 1
    /\ UNCHANGED <<cache, thr, writes>> /\ ThreadFrame

NextThreads ==
    \/ \E t \in Threads : CacheRead(t)
    \/ \E t \in Threads : CacheCompare(t)
    \/ \E t \in Threads : CacheDel(t)
    \/ \E t \in Threads : FetchFrames(t)
    \/ \E t \in Threads : CacheStore(t)
    \/ TickThreads

SpecThreads == InitThreads /\ [][NextThreads]_vars

\* the entry a thread read, and whether the clock it then read was past it
Snap(t) == thr[t].snap[pair]
HasSnap(t) == pair \in DOMAIN thr[t].snap

\* C17: every entry is stored with expiry = store time + max(1, TTL), so at
\* least one second ahead; _cache_get hands out the value it read only while
\* the clock it reads is not past that expiry; once the clock is past it the
\* call goes on to the del, after which the key is gone, and returns None
\* (the caller fetches), never the stale value.
C17_ExpiryHonoured ==
    /\ [](/\ \A w \in writes :
                /\ w.exp = w.at + Max2(1, env.fast_cache_ttl)
                /\ w.exp >= w.at + 1
          /\ \A t \in Threads :
                /\ thr[t].ret.kind = "hit" => (HasSnap(t) /\ thr[t].at <= Snap(t).exp)
                /\ thr[t].pc = "del" => (HasSnap(t) /\ thr[t].at > Snap(t).exp))
    /\ [][\A t \in Threads :
             /\ (thr[t].pc = "got" /\ HasSnap(t) /\ clock > Snap(t).exp /\ thr'[t] # thr[t])
                   => (thr'[t].pc = "del" /\ thr'[t].ret = NoRet)
             /\ (thr[t].pc = "del" /\ thr'[t] # thr[t])
                   => (pair \notin DOMAIN cache' /\ thr'[t].pc = "fetch"
                       /\ thr'[t].ret = NoRet)]_vars

\* with FAST_CACHE_TTL = 0 an entry stored at time 0 lives until 1; a get at
\* time 2 has deleted it and is about to fetch
C17_Witness ==
    \E t \in Threads :
        /\ env.fast_cache_ttl = 0
        /\ thr[t].pc = "fetch" /\ HasSnap(t)
        /\ Snap(t).exp = 1 /\ thr[t].at = 2
        /\ pair \notin DOMAIN cache

\* C18: whatever the interleaving, a value a caller gets from the cache has
\* all three frames and is, together with the expiry read with it, what one
\* _cache_set stored, and the clock read by _cache_get was not past that
\* expiry; the cache itself only ever holds such a stored pair; no thread
\* fails, and a call ends with a cached value, with the frames it fetched
\* itself, or with None when its fetch brought nothing.
C18_RaceOnlyRefetches ==
    /\ \A t \in Threads :
          /\ thr[t].pc # "error"
          /\ thr[t].ret.kind \in {"none", "hit", "fetched"}
          /\ thr[t].ret.kind = "hit" =>
                /\ DOMAIN thr[t].ret.val = TFs
                /\ \E w \in writes :
                      /\ w.val = thr[t].ret.val /\ w.exp = Snap(t).exp
                      /\ w.at <= thr[t].at /\ thr[t].at <= w.exp
          /\ thr[t].ret.kind = "fetched" =>
                /\ DOMAIN thr[t].ret.val = TFs
                /\ \E w \in writes : w.val = thr[t].ret.val
    /\ pair \in DOMAIN cache =>
          \E w \in writes : w.exp = cache[pair].exp /\ w.val = cache[pair].val

\* thread 1 is about to delete on the strength of an expired entry it read,
\* while the cache already holds a fresh entry that thread 2 stored and has
\* since been served from
C18_Witness ==
    /\ thr[1].pc = "del" /\ HasSnap(1)
    /\ pair \in DOMAIN cache /\ cache[pair] # Snap(1) /\ cache[pair].exp >= clock
    /\ thr[2].ret.kind = "hit" /\ thr[2].ret.val = cache[pair].val

-----------------------------------------------------------------------------
(* compute_indicators as a pure function of its closes, with the RSI          *)
(* arithmetic carried out in fixed point: prices are whole ticks, the         *)
(* averages are kept in 1/AvgScale tick, rs in 1/RsScale and the RSI in       *)
(* 1/RsiScale point.                                                          *)

RsiPeriod == 14        \* period=14
RsNoLoss == 999        \* rs when avg_loss == 0
AvgScale == 100000
RsScale == 1000
RsiScale == 100

CloseKinds == {"flat", "rise", "fall", "zigzag", "dip", "latedip"}
Steps == 1..3
IndLens == {0, 1, RsiPeriod, RsiPeriod + 1, MinBars - 1, MinBars, MinBars + 1}
EarlyBar == 5
LateBar == 40

\* the i-th close of a series: constant, rising or falling by a per bar,
\* alternately up a and down b, or rising by a with one drop of b
CloseAt(kind, a, b, i) ==
    CASE kind = "flat"    -> 100
      [] kind = "rise"    -> 100 + a * i
      [] kind = "fall"    -> 500 - a * i
      [] kind = "zigzag"  -> 200 + a * (i \div 2) - b * ((i - 1) \div 2)
      [] kind = "dip"     -> 100 + a * i - (IF i >= EarlyBar THEN a + b ELSE 0)
      [] kind = "latedip" -> 100 + a * i - (IF i >= LateBar THEN a + b ELSE 0)

ClosesOf(kind, a, b, n) == [i \in 1..n |-> CloseAt(kind, a, b, i)]

\* max(-ch, 0.0) without the max
LossSigned(ch) == -ch
\* gains.append(max(ch, 0.0)); losses.append(max(-ch, 0.0))
Gain(ch) == Max2(ch, 0)
Loss(ch) == Max2(-ch, 0)
Gains(vals) == [i \in 1..(Len(vals) - 1) |-> Gain(vals[i + 1] - vals[i])]
Losses(vals) == [i \in 1..(Len(vals) - 1) |-> Loss(vals[i + 1] - vals[i])]

\* avg = sum(xs[:period])/period
AvgStart(xs) == (SeqSum(Take(xs, RsiPeriod)) * AvgScale) \div RsiPeriod
\* one pass of the loop of rsi_calc: avg = (avg*(period-1) + xs[i]) / period
AvgStep(avg, x) == (avg * (RsiPeriod - 1) + x * AvgScale) \div RsiPeriod

\* rs = (avg_gain / avg_loss) if avg_loss != 0 else 999
Rs(avg_gain, avg_loss) ==
    IF avg_loss # 0 THEN (avg_gain * RsScale) \div avg_loss ELSE RsNoLoss * RsScale

\* 100 - (100 / (1 + rs)); ZeroDivisionError (NoValue) when 1 + rs is 0
RsiFromRs(rs) ==
    IF RsScale + rs = 0 THEN NoValue
    ELSE 100 * RsiScale - (100 * RsiScale * RsScale) \div (RsScale + rs)

\* the series as the provider model describes it
SeriesOf(c) ==
    [n |-> Len(c.vals), numeric |-> c.numeric, iv1m |-> TRUE,
     trend |-> IF c.vals # <<>> /\ c.vals[Len(c.vals)] < c.vals[1] THEN "down" ELSE "up"]

InitInd ==
    /\ env = DefaultEnv
    /\ pair = "BTC/USDT"
    /\ pc = "idle" /\ now = NoTime /\ cache = EmptyMtf /\ clock = 0 /\ mtf = EmptyMtf
    /\ agg = NotOk /\ gli = NoGli /\ tried = <<>> /\ calls = <<>> /\ fetched = FALSE
    /\ result = NoResult /\ live = EmptyMtf
    /\ EvalIdle /\ OtherIdle("ind")
    /\ closesIn \in { [vals |-> ClosesOf(k, a, b, n), numeric |-> num] :
                        k \in CloseKinds, a \in Steps, b \in Steps, n \in IndLens,
                        num \in BOOLEAN }
    /\ indOut = NoInd

IndFrame ==
    /\ UNCHANGED <<closesIn, signalVars, evalVars>>
    /\ OtherUnchanged("ind")

\* compute_indicators(closes) up to the first averages of rsi_calc: the
\* short-series return, the gains and losses lists (the subtraction raises on
\* closes that are not numbers), rsi_calc's own length test
ComputeStart ==
    /\ ~indOut.done /\ indOut.i = 0
    /\ LET s == SeriesOf(closesIn)
           gs == Gains(closesIn.vals)
           ls == Losses(closesIn.vals)
       IN  indOut' =
             IF ComputeIndicatorsRaises(s)
             THEN [indOut EXCEPT !.done = TRUE, !.raised = TRUE]
             ELSE IF s.n < MinBars
             THEN [indOut EXCEPT !.done = TRUE, !.live = ComputeIndicators(s),
                                 !.rsi = NeutralDefaults.rsi * RsiScale]
             ELSE IF Len(gs) < RsiPeriod
             THEN [indOut EXCEPT !.done = TRUE, !.live = ComputeIndicators(s),
                                 !.rsi = 50 * RsiScale]
             ELSE [indOut EXCEPT !.i = RsiPeriod + 1, !.avg_gain = AvgStart(gs),
                                 !.avg_loss = AvgStart(ls)]
    /\ IndFrame

\* for i in range(period, len(gs))
RsiLoop ==
    /\ ~indOut.done /\ indOut.i > 0 /\ indOut.i <= Len(closesIn.vals) - 1
    /\ indOut' = [indOut EXCEPT
                     !.i = @ + 1,
                     !.avg_gain = AvgStep(@, Gains(closesIn.vals)[indOut.i]),
                     !.avg_loss = AvgStep(@, Losses(closesIn.vals)[indOut.i])]
    /\ IndFrame

\* rs, the value rsi_calc returns, and the dict compute_indicators returns
ComputeFinish ==
    /\ ~indOut.done /\ indOut.i > 0 /\ indOut.i > Len(closesIn.vals) - 1
    /\ indOut' = [indOut EXCEPT
                     !.done = TRUE,
                     !.live = ComputeIndicators(SeriesOf(closesIn)),
                     !.rsi = RsiFromRs(Rs(indOut.avg_gain, indOut.avg_loss))]
    /\ IndFrame

NextInd == ComputeStart \/ RsiLoop \/ ComputeFinish

SpecInd == InitInd /\ [][NextInd]_vars

\* no bar closes below / above the bar before it
NoLosingBar(vals) == \A i \in 1..(Len(vals) - 1) : vals[i + 1] >= vals[i]
NoGainingBar(vals) == \A i \in 1..(Len(vals) - 1) : vals[i + 1] <= vals[i]

\* C19: compute_indicators called with fewer than 60 closes, numbers or not,
\* empty or not, raises nothing and returns exactly rsi 50, macd_hist 0,
\* ema_fast_over_slow false, bb_pos 0, stoch 50.
C19_ShortSeriesNeutral ==
    (indOut.done /\ Len(closesIn.vals) < 60) =>
        /\ ~indOut.raised
        /\ indOut.live = [rsi |-> 50, macd_hist |-> 0, ema_fast_over_slow |-> FALSE,
                          bb_pos |-> 0, stoch |-> 50]
        /\ indOut.rsi = 50 * RsiScale

\* 59 closes that are not numbers, a series that would raise at 60
C19_Witness ==
    /\ indOut.done /\ Len(closesIn.vals) = 59 /\ ~closesIn.numeric
    /\ indOut.live.rsi = 50 /\ ~indOut.raised

\* C20: whenever compute_indicators returns, its RSI lies in 0..100; with 60
\* or more closes and no falling bar it is 100 - 100/(1 + 999) = 99.9, with
\* falling bars and no rising bar it is 0.
C20_RsiRange ==
    (indOut.done /\ ~indOut.raised) =>
        /\ 0 <= indOut.rsi /\ indOut.rsi <= 100 * RsiScale
        /\ Len(closesIn.vals) >= 60 =>
              /\ NoLosingBar(closesIn.vals) =>
                    indOut.rsi = 100 * RsiScale - RsiScale \div 10
              /\ (NoGainingBar(closesIn.vals) /\ ~NoLosingBar(closesIn.vals)) =>
                    indOut.rsi = 0

\* 61 closes rising all the way: average loss 0, rs 999
C20_Witness ==
    /\ indOut.done /\ ~indOut.raised /\ Len(closesIn.vals) = 61
    /\ NoLosingBar(closesIn.vals) /\ ~NoGainingBar(closesIn.vals)
    /\ indOut.rsi = 9990

\* 60 closes falling all the way: average gain 0, RSI 0
C20_NoGainWitness ==
    /\ indOut.done /\ ~indOut.raised /\ Len(closesIn.vals) = 60
    /\ NoGainingBar(closesIn.vals) /\ ~NoLosingBar(closesIn.vals)
    /\ indOut.rsi = 0

\* a series with rises and falls gives a value strictly inside the range
C20_MixedWitness ==
    /\ indOut.done /\ ~indOut.raised /\ Len(closesIn.vals) = 60
    /\ indOut.rsi > 0 /\ indOut.rsi < 9990 /\ indOut.rsi # 5000

-----------------------------------------------------------------------------
(* consume_signal_by_telegram_id for one user on one day, in the Postgres     *)
(* backend (database.py: SELECT ... FOR UPDATE inside one transaction) and    *)
(* in the SQLite backend (sqlite_db.py: a plain SELECT, then UPDATEs that     *)
(* start the write transaction).  Days are numbered; Today is the day of      *)
(* every call.                                                                *)

Today == 1
Backends == {"postgres", "sqlite"}
QThreads == {1, 2}
QCounts == 0..2
MaxConsumes == 5

NoQuota == [ok |-> FALSE, source |-> "none", used_today |-> 0, daily_limit |-> 0,
            credits |-> 0]
QStart == [pc |-> "idle", row |-> <<>>, res |-> NoQuota, n |-> 0]

\* signal_used_today / signal_daily_used as far as it counts for Today
UsedToday(r) == IF r.day = Today THEN r.used ELSE 0

InitQuota ==
    /\ env = DefaultEnv
    /\ pair = "BTC/USDT"
    /\ pc = "idle" /\ now = NoTime /\ cache = EmptyMtf /\ clock = 0 /\ mtf = EmptyMtf
    /\ agg = NotOk /\ gli = NoGli /\ tried = <<>> /\ calls = <<>> /\ fetched = FALSE
    /\ result = NoResult /\ live = EmptyMtf
    /\ EvalIdle /\ OtherIdle("quota")
    /\ quser \in {r \in [limit : QCounts, used : QCounts, day : {Today - 1, Today},
                        credits : QCounts] : r.day = Today => r.used <= r.limit}
    /\ qthr = [t \in QThreads |-> QStart]
    /\ qcfg \in {[backend |-> b, overlap |-> o,
                  units |-> quser.limit - UsedToday(quser) + quser.credits] :
                    b \in Backends, o \in BOOLEAN}
    /\ rowlock = 0

QuotaFrame == UNCHANGED <<signalVars, evalVars>> /\ OtherUnchanged("quota")

ConsumeCreditFirst(used, limit, credits) ==
    IF credits > 0 THEN "credit" ELSE IF used < limit THEN "daily" ELSE "none"
\* if used < limit ... / if credits > 0 ... / else
ConsumeSource(used, limit, credits) ==
    IF used < limit THEN "daily" ELSE IF credits > 0 THEN "credit" ELSE "none"

LockIgnored(holder) == TRUE
\* FOR UPDATE waits while another transaction holds the row lock
LockFree(holder) == holder = 0

\* the SELECT: the row as the thread holds it from here on; in Postgres the
\* row lock is taken with it
ConsumeSelect(t) ==
    /\ qthr[t].pc = "idle"
    /\ qthr[1].n + qthr[2].n < MaxConsumes
    /\ qcfg.overlap \/ \A x \in QThreads : qthr[x].pc = "idle"
    /\ IF qcfg.backend = "postgres"
       THEN LockFree(rowlock) /\ rowlock' = t
       ELSE UNCHANGED rowlock
    /\ qthr' = [qthr EXCEPT ![t].pc = "selected", ![t].row = quser, ![t].n = @ + 1]
    /\ UNCHANGED <<quser, qcfg>>
    /\ QuotaFrame

\* the day reset and the UPDATE of the branch taken, decided on the row read
\* by the SELECT and applied to the row as it is now (signal_used_today + 1,
\* signal_credits - 1); SQLite commits here and returns
ConsumeUpdate(t) ==
    /\ qthr[t].pc = "selected"
    /\ LET r == qthr[t].row
           used == UsedToday(r)
           src == ConsumeSource(used, r.limit, r.credits)
           reset == IF r.day # Today THEN [quser EXCEPT !.used = 0, !.day = Today]
                    ELSE quser
           sq == qcfg.backend = "sqlite"
       IN  /\ quser' = CASE src = "daily" ->
                               [reset EXCEPT !.used = @ + 1,
                                             !.day = IF sq THEN Today ELSE @]
                         [] src = "credit" ->
                               [reset EXCEPT !.credits = @ - 1,
                                             !.day = IF sq THEN Today ELSE @]
                         [] OTHER -> reset
           /\ qthr' = [qthr EXCEPT
                  ![t].pc = IF sq THEN "idle" ELSE "updated",
                  ![t].res = [ok |-> src # "none", source |-> src,
                              used_today |-> IF src = "daily" THEN used + 1 ELSE used,
                              daily_limit |-> r.limit,
                              credits |-> CASE src = "credit" -> r.credits - 1
                                            [] src = "none" /\ sq -> 0
                                            [] OTHER -> r.credits]]
    /\ UNCHANGED <<qcfg, rowlock>>
    /\ QuotaFrame

\* Postgres: get_conn commits when the with block is left; the lock goes
ConsumeCommit(t) ==
    /\ qthr[t].pc = "updated"
    /\ qthr' = [qthr EXCEPT ![t].pc = "idle"]
    /\ rowlock' = IF rowlock = t THEN 0 ELSE rowlock
    /\ UNCHANGED <<quser, qcfg>>
    /\ QuotaFrame

NextQuota ==
    \/ \E t \in QThreads : ConsumeSelect(t)
    \/ \E t \in QThreads : ConsumeUpdate(t)
    \/ \E t \in QThreads : ConsumeCommit(t)

SpecQuota == InitQuota /\ [][NextQuota]_vars

\* calls that have returned ok so far
Consumed == Cardinality({t \in QThreads : qthr[t].res.ok /\ qthr[t].pc = "idle"})
OkCount == qcfg.units - (quser.limit - UsedToday(quser) + quser.credits)

\* C21: when the calls do not overlap, a call that finds used_today below the
\* daily limit takes one unit from the daily allowance and leaves the credits,
\* a call that finds the allowance used up and credits left takes one credit
\* and leaves used_today, and a call that finds neither returns ok=false and
\* leaves both; the values returned are the counters after the call; so
\* used_today never exceeds daily_limit and credits never drops below 0.
C21_OneUnitDailyFirst ==
    /\ [](~qcfg.overlap => (UsedToday(quser) <= quser.limit /\ quser.credits >= 0))
    /\ [][\A t \in QThreads :
            (~qcfg.overlap /\ qthr[t].pc = "selected" /\ qthr'[t].pc # "selected") =>
               LET u == UsedToday(quser)
                   c == quser.credits
                   r == qthr'[t].res
               IN  /\ quser'.limit = quser.limit
                   /\ u < quser.limit =>
                         /\ r.ok /\ r.source = "daily"
                         /\ UsedToday(quser') = u + 1 /\ quser'.credits = c
                         /\ r.used_today = u + 1 /\ r.credits = c
                   /\ (u >= quser.limit /\ c > 0) =>
                         /\ r.ok /\ r.source = "credit"
                         /\ UsedToday(quser') = u /\ quser'.credits = c - 1
                         /\ r.used_today = u /\ r.credits = c - 1
                   /\ (u >= quser.limit /\ c = 0) =>
                         /\ ~r.ok
                         /\ UsedToday(quser') = u /\ quser'.credits = c]_vars

\* a user with daily limit 2 and 2 credits, first used on an earlier day:
\* four calls were served, the fifth is refused with everything used up
C21_Witness ==
    /\ ~qcfg.overlap /\ qcfg.units = 4
    /\ qthr[1].n + qthr[2].n = 5
    /\ \A t \in QThreads : qthr[t].pc = "idle"
    /\ \E t \in QThreads : ~qthr[t].res.ok /\ qthr[t].n > 0
    /\ quser.used = 2 /\ quser.credits = 0

\* C22: in the Postgres backend, overlapping calls included, the units handed
\* out are exactly the units taken from the counters, used_today stays within
\* the limit and credits at or above 0; when one unit was left and both
\* threads have made one call, exactly one of them got ok=true and the
\* counters are those of two calls made one after the other.
C22_RowLockSerializes ==
    qcfg.backend = "postgres" =>
        /\ UsedToday(quser) <= quser.limit /\ quser.credits >= 0
        /\ OkCount >= 0
        /\ (rowlock = 0) => (\A t \in QThreads : qthr[t].pc = "idle")
        /\ (/\ qcfg.units = 1
            /\ \A t \in QThreads : qthr[t].pc = "idle" /\ qthr[t].n = 1) =>
               /\ Cardinality({t \in QThreads : qthr[t].res.ok}) = 1
               /\ UsedToday(quser) = quser.limit /\ quser.credits = 0

\* both threads called at the same time with one credit left: one was served
\* from the credit, the other refused
C22_Witness ==
    /\ qcfg.backend = "postgres" /\ qcfg.overlap /\ qcfg.units = 1
    /\ \A t \in QThreads : qthr[t].pc = "idle" /\ qthr[t].n = 1
    /\ qthr[1].res.source = "credit" /\ ~qthr[2].res.ok
    /\ qthr[2].row.credits = 0

\* C23 (as claimed): in the SQLite backend the consumes served never exceed
\* the units the user had, signal_daily_used never exceeds signal_daily_limit
\* and signal_credits never becomes negative.
C23_SqliteNeverOverServes ==
    qcfg.backend = "sqlite" =>
        /\ UsedToday(quser) <= quser.limit
        /\ quser.credits >= 0
        /\ (\A t \in QThreads : qthr[t].n <= 1) => Consumed <= qcfg.units

-----------------------------------------------------------------------------
(* Signal requests of one user: the timeframe text handled by on_text and     *)
(* the inline callback handled by on_signal_timeframe, each on a worker       *)
(* thread of the bot.  Every read or write of FREE_SAMPLES and every database *)
(* call is one step.  The quota is consumed in one step here; overlapping     *)
(* consumes are the subject of SpecQuota.                                     *)

ReqPaths == {"text", "callback"}
ReqThreads == {1, 2}
ReqCallsBefore == {0, 1}
MaxReqTime == 2
NoFree == 0

RStart == [pc |-> "idle", path |-> "none", prem |-> FALSE, at |-> 0, out |-> "none",
           n |-> 0]

InitRequest ==
    /\ env = DefaultEnv
    /\ pair = "EUR/USD"
    /\ pc = "idle" /\ now = NoTime /\ cache = EmptyMtf /\ clock = 0 /\ mtf = EmptyMtf
    /\ agg = NotOk /\ gli = NoGli /\ tried = <<>> /\ calls = <<>> /\ fetched = FALSE
    /\ result = NoResult /\ live = EmptyMtf
    /\ EvalIdle /\ OtherIdle("request")
    /\ ruser \in [is_premium : BOOLEAN, premium_until : {1}, limit : {1}, used : {0, 1},
                  day : {Today}, credits : {0, 1}]
    /\ rthr = [t \in ReqThreads |-> RStart]
    /\ rglob \in [free : {NoFree, Today}, market : BOOLEAN, now : {0},
                  free_served : {0}]

RequestFrame == UNCHANGED <<signalVars, evalVars>> /\ OtherUnchanged("request")

\* _user_has_premium(u): the flag of the row, whatever premium_until says
UserHasPremium(u) == u.is_premium

MarketNotChecked(m) == TRUE
\* open_now = utils._market_open_for_asset(pair)
OpenNow(m) == m

Finish(t, kind) == [rthr EXCEPT ![t].pc = "idle", ![t].out = kind]
Goto(t, where) == [rthr EXCEPT ![t].pc = where]

\* user = db.get_user_by_telegram_id(uid) and the first _user_has_premium(user)
ReqRead(t) ==
    /\ rthr[t].pc = "idle" /\ rthr[t].n \in ReqCallsBefore
    /\ \E p \in ReqPaths :
          rthr' = [rthr EXCEPT ![t] =
                     [pc |-> IF p = "callback" /\ ~UserHasPremium(ruser)
                             THEN "free_check" ELSE "market",
                      path |-> p, prem |-> UserHasPremium(ruser), at |-> rglob.now,
                      out |-> "none", n |-> rthr[t].n + 1]]
    /\ UNCHANGED <<ruser, rglob>>
    /\ RequestFrame

\* if FREE_SAMPLES.get(uid) == today: tell the user and return
ReqFreeCheck(t) ==
    /\ rthr[t].pc = "free_check"
    /\ rthr' = IF rglob.free = Today THEN Finish(t, "free_used")
               ELSE Goto(t, IF rthr[t].path = "text" THEN "free_mark" ELSE "market")
    /\ UNCHANGED <<ruser, rglob>>
    /\ RequestFrame

\* the market check: closed -> "Market closed" message and return
ReqMarket(t) ==
    /\ rthr[t].pc = "market"
    /\ rthr' = IF ~OpenNow(rglob.market) THEN Finish(t, "market_closed")
               ELSE Goto(t, IF rthr[t].prem THEN "quota"
                            ELSE IF rthr[t].path = "text" THEN "free_check"
                            ELSE "free_mark")
    /\ UNCHANGED <<ruser, rglob>>
    /\ RequestFrame

\* quota = db.consume_signal_by_telegram_id(uid); the signal is sent if ok
ReqConsume(t) ==
    /\ rthr[t].pc = "quota"
    /\ LET used == UsedToday(ruser)
           src == ConsumeSource(used, ruser.limit, ruser.credits)
       IN  /\ ruser' = CASE src = "daily" -> [ruser EXCEPT !.used = used + 1]
                         [] src = "credit" -> [ruser EXCEPT !.credits = @ - 1]
                         [] OTHER -> ruser
           /\ rthr' = Finish(t, IF src = "none" THEN "limit" ELSE "signal_premium")
    /\ UNCHANGED rglob
    /\ RequestFrame

\* FREE_SAMPLES[uid] = today; the free signal is sent
ReqFreeMark(t) ==
    /\ rthr[t].pc = "free_mark"
    /\ rglob' = [rglob EXCEPT !.free = Today, !.free_served = @ + 1]
    /\ rthr' = Finish(t, "signal_free")
    /\ UNCHANGED ruser
    /\ RequestFrame

\* time passes
ReqTick ==
    /\ rglob.now < MaxReqTime
    /\ rglob' = [rglob EXCEPT !.now = @ + 1]
    /\ UNCHANGED <<ruser, rthr>>
    /\ RequestFrame

\* expire_past_due (run_cron): is_premium = 0 where premium_until < now
ExpirePastDue ==
    /\ ruser.is_premium /\ ruser.premium_until < rglob.now
    /\ ruser' = [ruser EXCEPT !.is_premium = FALSE]
    /\ UNCHANGED <<rthr, rglob>>
    /\ RequestFrame

NextRequest ==
    \/ \E t \in ReqThreads : ReqRead(t)
    \/ \E t \in ReqThreads : ReqFreeCheck(t)
    \/ \E t \in ReqThreads : ReqMarket(t)
    \/ \E t \in ReqThreads : ReqConsume(t)
    \/ \E t \in ReqThreads : ReqFreeMark(t)
    \/ ReqTick
    \/ ExpirePastDue

SpecRequest == InitRequest /\ [][NextRequest]_vars

\* thread t has handled a request to its end
Handled(t) == rthr[t].pc = "idle" /\ rthr[t].n > 0

\* C24 (as claimed): with the market closed, every request handled on either
\* path ends with the "Market closed" message, and no step changes the daily
\* usage, the credits or the free-sample marker.
C24_ClosedAlwaysAnnounced ==
    ~rglob.market =>
        /\ \A t \in ReqThreads : Handled(t) => rthr[t].out = "market_closed"
        /\ rglob.free_served = 0

\* C24 (amended): with the market closed, no step of either path changes the
\* daily usage, the credits or the free-sample marker, and no signal is
\* served; a handled request ends with the "Market closed" message, except an
\* inline callback of a non-premium user whose free sample of today is used,
\* which ends with the "Free sample used" answer.
C24_ClosedLeavesQuota ==
    /\ [](~rglob.market =>
            \A t \in ReqThreads : Handled(t) =>
                \/ rthr[t].out = "market_closed"
                \/ /\ rthr[t].out = "free_used" /\ rthr[t].path = "callback"
                   /\ ~rthr[t].prem /\ rglob.free = Today)
    /\ [][~rglob.market =>
            /\ ruser'.used = ruser.used /\ ruser'.credits = ruser.credits
            /\ ruser'.day = ruser.day /\ ruser'.limit = ruser.limit
            /\ rglob'.free = rglob.free /\ rglob'.free_served = rglob.free_served]_vars

\* a premium user with the whole allowance left asked on both paths while the
\* market was closed
C24_Witness ==
    /\ ~rglob.market /\ ruser.is_premium /\ ruser.used = 0 /\ ruser.credits = 1
    /\ Handled(1) /\ rthr[1].path = "text" /\ rthr[1].out = "market_closed"
    /\ Handled(2) /\ rthr[2].path = "callback" /\ rthr[2].out = "market_closed"
    /\ rthr[1].prem /\ rthr[2].prem

\* C27 (as claimed): a request is handled as premium only if premium_until was
\* not in the past when the handler read the user.
C27_PremiumOnlyUntilExpiry ==
    \A t \in ReqThreads :
        (rthr[t].n > 0 /\ rthr[t].prem) => ~(ruser.premium_until < rthr[t].at)

\* C28 (as claimed): at most one free signal is served to the user on the day.
C28_OneFreeSignalPerDay ==
    rglob.free_served <= 1

-----------------------------------------------------------------------------
(* Premium expiry of one user: grants, the reminders and expire_past_due of   *)
(* run_cron, in the SQLite backend (sqlite_db.py), the Postgres backend       *)
(* (backend/database.py) and the Database class of src/database.py, whose     *)
(* expires_at column holds a date.  Time is counted in half days; the two     *)
(* backends keep the expiry in half days, the Database class in days.         *)

Impls == {"sqlite", "postgres", "legacy"}
HalfDays == 2
GrantDays == {1, 3}
MaxPTime == 8
MaxGrants == 2
ReminderDays == <<3, 1>>

\* DATE(x) of a time in half days
DateOf(x) == x \div HalfDays

NoGrant == [some |-> FALSE, before |-> NoValue, at |-> 0, days |-> 0]

InitPremium ==
    /\ env = DefaultEnv
    /\ pair = "EUR/USD"
    /\ pc = "idle" /\ now = NoTime /\ cache = EmptyMtf /\ clock = 0 /\ mtf = EmptyMtf
    /\ agg = NotOk /\ gli = NoGli /\ tried = <<>> /\ calls = <<>> /\ fetched = FALSE
    /\ result = NoResult /\ live = EmptyMtf
    /\ EvalIdle /\ OtherIdle("premium")
    /\ pglob \in [impl : Impls, now : {0, 1}, last : {"start"}, grants : {0},
                  grant : {NoGrant}, prev : {NoGrant}, repeated : {FALSE}]
    /\ puser \in {u \in [is_premium : BOOLEAN, premium_until : {NoValue, 2},
                          last_reminded_days : {0}, reminded_d3 : {FALSE},
                          reminded_d1 : {FALSE}] :
                     u.is_premium <=> u.premium_until # NoValue}
    /\ reminders = {}

PremiumFrame == UNCHANGED <<signalVars, evalVars>> /\ OtherUnchanged("premium")

GrantFromNow(until, t) == t
\* CASE WHEN premium_until IS NULL OR premium_until < now THEN now ELSE premium_until
GrantBase(until, t) == IF until = NoValue \/ until < t THEN t ELSE until

\* Database.grant_premium: the stored date taken as midnight, the later of it
\* and utcnow() plus the days, cut to its date
LegacyGrant(expires_at, t, days) ==
    LET current_expiry == IF expires_at = NoValue THEN t ELSE expires_at * HalfDays
        base == IF current_expiry > t THEN current_expiry ELSE t
    IN  DateOf(base + days * HalfDays)

\* grant_premium_by_user_id(user_id, days) / Database.grant_premium
GrantPremium ==
    /\ pglob.grants < MaxGrants
    /\ \E days \in GrantDays :
          /\ puser' = [puser EXCEPT
                 !.is_premium = TRUE,
                 !.premium_until =
                     IF pglob.impl = "legacy"
                     THEN LegacyGrant(puser.premium_until, pglob.now, days)
                     ELSE GrantBase(puser.premium_until, pglob.now) + days * HalfDays]
          /\ pglob' = [pglob EXCEPT
                 !.last = "grant", !.grants = @ + 1, !.prev = pglob.grant,
                 !.grant = [some |-> TRUE, before |-> puser.premium_until,
                            at |-> pglob.now, days |-> days]]
    /\ UNCHANGED reminders
    /\ PremiumFrame

\* get_users_expiring_in_days(days) finds the user
Expiring(u, impl, t, days) ==
    /\ u.is_premium /\ u.premium_until # NoValue
    /\ DateOf(u.premium_until) = DateOf(t) + days
    /\ IF impl = "sqlite" THEN u.last_reminded_days # days
       ELSE IF days = 1 THEN ~u.reminded_d1 ELSE ~u.reminded_d3

\* set_reminded(user_id, days)
SetReminded(u, impl, days) ==
    IF impl = "sqlite" THEN [u EXCEPT !.last_reminded_days = days]
    ELSE IF days = 1 THEN [u EXCEPT !.reminded_d1 = TRUE]
    ELSE [u EXCEPT !.reminded_d3 = TRUE]

\* the reminder loop of run_cron from the i-th entry of ReminderDays on
RECURSIVE RemindFrom(_, _, _, _)
RemindFrom(u, impl, t, i) ==
    IF i > Len(ReminderDays) THEN [u |-> u, sent |-> {}]
    ELSE LET days == ReminderDays[i]
             hit == Expiring(u, impl, t, days)
             rest == RemindFrom(IF hit THEN SetReminded(u, impl, days) ELSE u,
                                impl, t, i + 1)
         IN  [u |-> rest.u,
              sent |-> rest.sent \cup
                       (IF hit THEN {<<days, DateOf(u.premium_until)>>} ELSE {})]

\* run_cron: the reminders, then expire_past_due
RunCron ==
    /\ pglob.impl # "legacy"
    /\ LET r == RemindFrom(puser, pglob.impl, pglob.now, 1)
       IN  /\ reminders' = reminders \cup r.sent
           /\ puser' = [r.u EXCEPT !.is_premium =
                           @ /\ ~(r.u.premium_until # NoValue
                                  /\ r.u.premium_until < pglob.now)]
           /\ pglob' = [pglob EXCEPT !.last = "cron",
                           !.repeated = @ \/ (r.sent \cap reminders # {})]
    /\ PremiumFrame

\* half a day passes
PremiumTick ==
    /\ pglob.now < MaxPTime
    /\ pglob' = [pglob EXCEPT !.now = @ + 1, !.last = "tick"]
    /\ UNCHANGED <<puser, reminders>>
    /\ PremiumFrame

NextPremium == GrantPremium \/ RunCron \/ PremiumTick

SpecPremium == InitPremium /\ [][NextPremium]_vars

\* the time a grant counts in, by implementation: half days, or the date
GrantNow(t) == IF pglob.impl = "legacy" THEN DateOf(t) ELSE t
GrantUnit == IF pglob.impl = "legacy" THEN 1 ELSE HalfDays
ActiveAt(g) == g.some /\ g.before # NoValue /\ g.before >= GrantNow(g.at)

\* C29: right after a grant of d days the user is premium and the expiry is
\* the later of the old expiry and now, plus d days (in dates for the
\* Database class, whose column is a date); so an existing expiry only moves
\* forward, a user with no expiry or a past one gets now + d, and a second
\* grant to a user who was active at both grants ends d1 + d2 days after the
\* expiry the first grant found.
C29_GrantExtends ==
    pglob.last = "grant" =>
        LET g == pglob.grant
            t == GrantNow(g.at)
            new == puser.premium_until
        IN  /\ puser.is_premium
            /\ new = Max2(IF g.before = NoValue THEN t ELSE g.before, t)
                       + g.days * GrantUnit
            /\ g.before # NoValue => new > g.before
            /\ new >= t + g.days * GrantUnit
            /\ (g.before = NoValue \/ g.before < t) => new = t + g.days * GrantUnit
            /\ (ActiveAt(pglob.prev) /\ ActiveAt(g)) =>
                  new = pglob.prev.before + (pglob.prev.days + g.days) * GrantUnit

\* two grants, of 1 and of 3 days, to a user whose premium was running, with
\* time passing between them
C29_Witness ==
    /\ pglob.last = "grant" /\ pglob.impl = "sqlite"
    /\ ActiveAt(pglob.prev) /\ ActiveAt(pglob.grant)
    /\ pglob.prev.days = 1 /\ pglob.grant.days = 3
    /\ pglob.grant.at > pglob.prev.at
    /\ puser.premium_until = 2 + 4 * HalfDays

\* C30 (as claimed): no reminder is sent twice for the same mark of the same
\* expiry date, and after a run of run_cron on the day 3 days (1 day) before
\* the expiry date of a premium user, the 3-day (1-day) reminder for that
\* expiry date has been sent, renewals or not.
C30_RemindersPerExpiry ==
    /\ ~pglob.repeated
    /\ (pglob.last = "cron" /\ puser.is_premium /\ puser.premium_until # NoValue) =>
          \A k \in {1, 3} :
              DateOf(puser.premium_until) = DateOf(pglob.now) + k =>
                  <<k, DateOf(puser.premium_until)>> \in reminders

\* without a renewal the reminders do come
C30_SingleExpiryReminded ==
    (pglob.grants + (IF pglob.grant.before = NoValue THEN 0 ELSE 1) <= 1) =>
        C30_RemindersPerExpiry

-----------------------------------------------------------------------------
(* Runs of evaluate_pending_signals (from run_cron) and of                    *)
(* generate_24h_served_report that may overlap: each works through the rows   *)
(* it read when it started.  The providers serve the most recent candles, so  *)
(* the oldest candle served moves on with time.  max_batch is scaled down to  *)
(* MaxBatch.                                                                  *)

Runners == {"cron", "report"}
MaxBatch == 1
LastSlot == 5
WindowStarts == {0, 1}

\* rows as insert_signal_log leaves them; direction "" when the signal text
\* named none
PendingRows ==
    [ pair : {"BTC/USDT", "EUR/USD"}, timeframe : {"1m"}, direction : {"UP", "DOWN", ""},
      entry_ms : {1}, outcome : {""}, exit_price : {NoValue}, exit_time : {NoValue},
      pnl_pct : {0} ]

InitRuns ==
    /\ env \in {[DefaultEnv EXCEPT !.finnhub = f] : f \in BOOLEAN}
    /\ pair = "EUR/USD"
    /\ pc = "idle" /\ now = NoTime /\ cache = EmptyMtf /\ clock = 0 /\ mtf = EmptyMtf
    /\ agg = NotOk /\ gli = NoGli /\ tried = <<>> /\ calls = <<>> /\ fetched = FALSE
    /\ result = NoResult /\ live = EmptyMtf
    /\ logs \in [LogIds -> PendingRows]
    /\ job = NoJob /\ candles = <<>> /\ ev = NoEv
    /\ OtherIdle("runs")
    /\ runners = [r \in Runners |-> NoJob]
    /\ feed \in [start : {0}, path : Paths]

RunsFrame == UNCHANGED <<signalVars, job, candles, ev>> /\ OtherUnchanged("runs")

\* the candles a fetch brings now
ServedCandles(provider) ==
    [i \in 1..(LastSlot - feed.start + 1) |->
        [ot |-> OpenTime(feed.start + i - 1),
         ct |-> CloseTime(provider, feed.start + i - 1),
         close |-> ClosePrice(feed.path, feed.start + i - 1)]]

EvalProvider(p) == IF ClassifyAsset(p) = "crypto" THEN "binance" ELSE "finnhub"

\* the row is one the function evaluates: evaluate_pending_signals skips a
\* row without pair or direction, the report a row that had an outcome
Wanted(r, x) ==
    IF r = "cron" THEN x.r.pair # "" /\ x.r.direction \in {"UP", "DOWN"}
    ELSE x.r.outcome = ""

\* a provider is there for the pair
HasProvider(p) == ClassifyAsset(p) = "crypto" \/ env.finnhub

\* rows = db.list_signal_logs_pending(limit=max_batch) /
\* items = db.list_signal_logs_since(hours)
RunBegin(r) ==
    /\ runners[r].kind = "none"
    /\ LET rows == IF r = "cron" THEN Take(ListPending(logs), MaxBatch)
                   ELSE ReportRows(logs)
       IN  /\ rows # <<>>
           /\ runners' = [runners EXCEPT
                  ![r] = [kind |-> IF r = "cron" THEN "evaluate" ELSE "report",
                          rows |-> rows, cur |-> 0]]
    /\ UNCHANGED <<logs, feed>>
    /\ RunsFrame

\* one pass of the loop of either function over the rows it read
RunRow(r) ==
    /\ runners[r].kind # "none" /\ runners[r].rows # <<>>
    /\ \E x \in {Head(runners[r].rows)} :
       \E k \in {ServedCandles(EvalProvider(x.r.pair))} :
       \E e \in {IF Wanted(r, x) /\ HasProvider(x.r.pair)
                  THEN EvalOptionA(k, x.r.entry_ms, x.r.direction) ELSE NoEv} :
          /\ logs' = IF e.some /\ e.exit_price # NoValue
                      THEN UpdateSignalEvaluation(logs, x.id, e) ELSE logs
          /\ runners' = [runners EXCEPT ![r].rows = Tail(@), ![r].cur = x.id]
    /\ UNCHANGED feed
    /\ RunsFrame

\* the loop is over; the function returns
RunEnd(r) ==
    /\ runners[r].kind # "none" /\ runners[r].rows = <<>>
    /\ runners' = [runners EXCEPT ![r] = NoJob]
    /\ UNCHANGED <<logs, feed>>
    /\ RunsFrame

\* time passes: the oldest candle is no longer served
SlideWindow ==
    /\ feed.start + 1 \in WindowStarts
    /\ feed' = [feed EXCEPT !.start = @ + 1]
    /\ UNCHANGED <<logs, runners>>
    /\ RunsFrame

NextRuns ==
    \/ \E r \in Runners : RunBegin(r)
    \/ \E r \in Runners : RunRow(r)
    \/ \E r \in Runners : RunEnd(r)
    \/ SlideWindow

SpecRuns == InitRuns /\ [][NextRuns]_vars

\* run_cron is invoked again and again and each run comes to its end
SpecRunsFair ==
    /\ SpecRuns
    /\ WF_vars(RunBegin("cron")) /\ WF_vars(RunRow("cron")) /\ WF_vars(RunEnd("cron"))

\* a row with a direction, a provider for its pair and its exit candle served
Evaluable(id) ==
    /\ logs[id].direction \in {"UP", "DOWN"} /\ HasProvider(logs[id].pair)
    /\ \A a \in WindowStarts :
          EvalOptionA(Candles(EvalProvider(logs[id].pair), a..LastSlot, feed.path),
                      logs[id].entry_ms, logs[id].direction).some

\* C25 (as claimed): with run_cron invoked again and again, every pending row
\* with direction UP or DOWN whose exit candle is served is eventually given
\* an outcome, whatever older rows stay pending.
C25_EventuallyEvaluated ==
    \A id \in LogIds : [](Evaluable(id) => <>(logs[id].outcome # ""))

\* the oldest pending row is evaluated when it can be
C25_OldestEvaluated ==
    [](Evaluable(1) => <>(logs[1].outcome # ""))

\* C26 (as claimed): once a row has outcome WIN or LOSS, no step of either
\* function changes its outcome, exit_price, exit_time or pnl_pct.
C26_OutcomeFinal ==
    [][\A id \in LogIds :
          logs[id].outcome \in {"WIN", "LOSS"} =>
             /\ logs'[id].outcome = logs[id].outcome
             /\ logs'[id].exit_price = logs[id].exit_price
             /\ logs'[id].exit_time = logs[id].exit_time
             /\ logs'[id].pnl_pct = logs[id].pnl_pct]_vars

\* a row that had its outcome when a function read it is left as it is by
\* that function
C26_ReadWithOutcomeKept ==
    [][\A r \in Runners :
          (/\ runners[r].rows # <<>>
           /\ runners'[r].rows = Tail(runners[r].rows)
           /\ Head(runners[r].rows).r.outcome # "") =>
             logs' = logs]_vars

\* the window of candles served is the fetch of the evaluation model
ServedAsFetched ==
    \A p \in {"binance", "finnhub"} :
       ServedCandles(p) = Candles(p, feed.start..LastSlot, feed.path)

====
